---------------------------- MODULE Spec2Model ----------------------------
(***************************************************************************)
(* A model of debctl's source-entry engine: the option map (option.rs),    *)
(* the one-line parser (parse.rs) and the install state machine            *)
(* (entry.rs).                                                             *)
(*                                                                         *)
(* Text.  A Rust string is modelled as a sequence of atoms.  An atom is    *)
(* either one of the characters the code inspects (space, tab, CR, LF,     *)
(* `=`, `,`, `[`, `]`, `#`, `:`, `.`) or an indivisible run of other       *)
(* characters (a word such as "deb").  The empty string is <<>>.           *)
(***************************************************************************)
EXTENDS Integers, Sequences, FiniteSets, TLC

VARIABLES
    \* ---- install state machine (entry.rs) ----
    file,       \* content of the target path, or NoFile
    ipc,        \* position of the installing process
    action,     \* the OverwriteAction of this invocation
    entry,      \* the OptionMap of the SourceEntry being installed
    plan,       \* result of InstallPlan::new, or NoPlan
    ires,       \* result of install(), or NoResult
    atOpen,     \* content of the target path when open_source_file ran
    raced,      \* another process created the target after invocation start
    installs,   \* invocations started so far
    idry,       \* --dry-run was given to this invocation
    ikeyargs,   \* whether a signing key was given and whether it is to be inlined
    ikey,       \* content of the key destination path, or NoFile
    ireport,    \* the report printed by this invocation, or NoReport
    \* ---- option map (option.rs) ----
    map,        \* the OptionMap under construction
    ores,       \* result of the last map operation
    olast,      \* the last map operation and the map it was applied to
    \* ---- one-line parser (parse.rs) ----
    line,       \* the input line
    pres,       \* result of parse_line_entry, or NoResult
    ppc,        \* position of the parsing caller
    \* ---- stanza serializer (option.rs, entry.rs) ----
    emap,       \* the OptionMap being serialized
    evalue,     \* the OptionValue encoded last
    etext,      \* the text produced last
    epc,        \* what was produced last: a value's encoding or an entry's text
    \* ---- one-line file parser (parse.rs) ----
    lfile,      \* the text of the one-line-style file
    lopts,      \* ParseLineFileOptions
    lres,       \* result of parse_line_file, or NoResult
    lpc,        \* position of the caller of parse_line_file
    \* ---- converter (convert.rs) ----
    cfs,        \* the file system: each path's file, or NoFile
    cfs0,       \* the file system when the command started
    cargs,      \* the arguments of the convert command
    cstdin,     \* the text on standard input
    centries,   \* EntryConverter::entries
    cpc,        \* position of the converting process
    cres,       \* result of the command, or NoResult
    ctemp,      \* content of the temporary file used when writing to stdout
    cstdout,    \* the text written to standard output
    creport,    \* the report printed by the command, or NoReport
    \* ---- `--option` arguments (parse.rs) ----
    qoption,    \* the `key=value` argument
    qforce,     \* force_literal
    qres,       \* result of parse_custom_option, or NoResult
    qpc,        \* position of the caller of parse_custom_option
    \* ---- option names (option.rs) ----
    nname,      \* a KnownOptionName
    ntext,      \* a spelling of its deb822 name
    nres,       \* result of KnownOptionName::from_str, or NoResult
    npc,        \* position of the caller of from_str
    \* ---- piping a key through the PGP tool (stdio.rs, pgp/gpg/key.rs) ----
    gop,        \* the operation: dearmor or id
    gkey,       \* the key: its encoding, whether its id is known, its length
    gpc,        \* the statement the calling thread is at
    gleft,      \* bytes of the key not yet written to the child's stdin
    gpipes,     \* the three pipes: bytes buffered, capacity, stdin's write end
    gchild,     \* the child process: its state and the output it has to write
    gthreads,   \* the threads reading the child's stdout and stderr
    gres        \* result of the operation, or NoResult

installVars == <<file, ipc, action, entry, plan, ires, atOpen, raced, installs,
                 idry, ikeyargs, ikey, ireport>>
optionVars  == <<map, ores, olast>>
parseVars   == <<line, pres, ppc>>
encodeVars  == <<emap, evalue, etext, epc>>
lineFileVars == <<lfile, lopts, lres, lpc>>
convertVars == <<cfs, cfs0, cargs, cstdin, centries, cpc, cres, ctemp, cstdout, creport>>
customVars  == <<qoption, qforce, qres, qpc>>
nameVars    == <<nname, ntext, nres, npc>>
pipeVars    == <<gop, gkey, gpc, gleft, gpipes, gchild, gthreads, gres>>
finalVars   == <<customVars, nameVars, pipeVars>>
laterVars   == <<encodeVars, lineFileVars, convertVars, finalVars>>
vars        == <<installVars, optionVars, parseVars, laterVars>>

-----------------------------------------------------------------------------
(* Bounds of the model. *)

\* Longest initial content of the target file, in atoms.
MaxInitLen == 3
\* Invocations of install against the same target path.
MaxInstalls == 2
\* Operations applied to one option map.
MaxMapOps == 3
\* Most positional tokens on an input line.
MaxParams == 4
\* Most lines of a Multiline value.
MaxBlockLines == 2
\* Most lines of a one-line-style file.
MaxFileLines == 3
\* Longest key written to the child's stdin, in bytes.
MaxPayload == 3
\* Largest capacity of a pipe, in bytes.
MaxPipe == 2
\* Most bytes the child writes to its stdout.
MaxOutput == 3

-----------------------------------------------------------------------------
(* Text helpers (std::str). *)

\* char::is_whitespace for the characters of the model.
IsWs(a) == a \in {" ", "\t", "\r", "\n"}

RECURSIVE TrimStart(_)
TrimStart(s) ==
    IF s = <<>> THEN <<>>
    ELSE IF IsWs(Head(s)) THEN TrimStart(Tail(s)) ELSE s

RECURSIVE TrimEnd(_)
TrimEnd(s) ==
    IF s = <<>> THEN <<>>
    ELSE IF IsWs(s[Len(s)]) THEN TrimEnd(SubSeq(s, 1, Len(s) - 1)) ELSE s

\* str::trim
Trim(s) == TrimEnd(TrimStart(s))

\* str::to_lowercase on the words of the model that have upper-case letters.
LowerAtom(a) ==
    CASE a = "Yes" -> "yes"
      [] a = "TRUE" -> "true"
      [] a = "No" -> "no"
      [] a = "Arch" -> "arch"
      [] a = "Lang" -> "lang"
      [] a = "Types" -> "types"
      [] a = "Enabled" -> "enabled"
      [] a = "Signed-By" -> "signed-by"
      [] a = "TYPES" -> "types"
      [] a = "URIs" -> "uris"
      [] a = "URIS" -> "uris"
      [] a = "Suites" -> "suites"
      [] a = "SUITES" -> "suites"
      [] a = "Components" -> "components"
      [] a = "COMPONENTS" -> "components"
      [] a = "ENABLED" -> "enabled"
      [] a = "Architectures" -> "architectures"
      [] a = "ARCHITECTURES" -> "architectures"
      [] a = "Languages" -> "languages"
      [] a = "LANGUAGES" -> "languages"
      [] a = "Targets" -> "targets"
      [] a = "TARGETS" -> "targets"
      [] a = "PDiffs" -> "pdiffs"
      [] a = "PDIFFS" -> "pdiffs"
      [] a = "By-Hash" -> "by-hash"
      [] a = "BY-HASH" -> "by-hash"
      [] a = "Allow-Insecure" -> "allow-insecure"
      [] a = "ALLOW-INSECURE" -> "allow-insecure"
      [] a = "Allow-Weak" -> "allow-weak"
      [] a = "ALLOW-WEAK" -> "allow-weak"
      [] a = "Allow-Downgrade-To-Insecure" -> "allow-downgrade-to-insecure"
      [] a = "ALLOW-DOWNGRADE-TO-INSECURE" -> "allow-downgrade-to-insecure"
      [] a = "Trusted" -> "trusted"
      [] a = "TRUSTED" -> "trusted"
      [] a = "SIGNED-BY" -> "signed-by"
      [] a = "Check-Valid-Until" -> "check-valid-until"
      [] a = "CHECK-VALID-UNTIL" -> "check-valid-until"
      [] a = "Valid-Until-Min" -> "valid-until-min"
      [] a = "VALID-UNTIL-MIN" -> "valid-until-min"
      [] a = "Valid-Until-Max" -> "valid-until-max"
      [] a = "VALID-UNTIL-MAX" -> "valid-until-max"
      [] a = "X-Repolib-Name" -> "x-repolib-name"
      [] a = "X-REPOLIB-NAME" -> "x-repolib-name"
      [] OTHER -> a

ToLowercase(s) == [i \in 1..Len(s) |-> LowerAtom(s[i])]

\* Index of the first occurrence of atom a in s at or after i, 0 if none.
RECURSIVE IndexFrom(_, _, _)
IndexFrom(s, a, i) ==
    IF i > Len(s) THEN 0
    ELSE IF s[i] = a THEN i ELSE IndexFrom(s, a, i + 1)

Contains(s, a) == IndexFrom(s, a, 1) # 0

\* str::split(a): the pieces between occurrences of a (always at least one piece).
RECURSIVE Split(_, _)
Split(s, a) ==
    LET i == IndexFrom(s, a, 1) IN
    IF i = 0 THEN <<s>>
    ELSE <<SubSeq(s, 1, i - 1)>> \o Split(SubSeq(s, i + 1, Len(s)), a)

\* [T]::join(sep) on a sequence of strings.
RECURSIVE Join(_, _)
Join(l, sep) ==
    IF l = <<>> THEN <<>>
    ELSE IF Len(l) = 1 THEN l[1]
    ELSE l[1] \o sep \o Join(Tail(l), sep)

\* BufRead::lines: the lines of a text without their terminator ("\n" or "\r\n");
\* a last line with no terminator is returned too, unless it is empty.
StripCr(s) == IF s # <<>> /\ s[Len(s)] = "\r" THEN SubSeq(s, 1, Len(s) - 1) ELSE s

RECURSIVE Lines(_)
Lines(s) ==
    IF s = <<>> THEN <<>>
    ELSE LET i == IndexFrom(s, "\n", 1) IN
         IF i = 0 THEN <<s>>
         ELSE <<StripCr(SubSeq(s, 1, i - 1))>> \o Lines(SubSeq(s, i + 1, Len(s)))

\* All sequences over S of length at most n.
SeqsUpTo(S, n) == UNION {[1..k -> S] : k \in 0..n}

\* The orders in which a HashMap with key set S may iterate: every permutation.
RECURSIVE IterOrders(_)
IterOrders(S) ==
    IF S = {} THEN {<<>>}
    ELSE UNION {{<<x>> \o p : p \in IterOrders(S \ {x})} : x \in S}

-----------------------------------------------------------------------------
(* Option names (option.rs). *)

\* enum KnownOptionName, in declaration order: the order of serialization.
KnownOrder ==
    << "RepolibName", "Enabled", "Types", "Uris", "Suites", "Components",
       "SignedBy", "Trusted", "Architectures", "Languages", "Targets", "PDiffs",
       "ByHash", "AllowInsecure", "AllowWeak", "AllowDowngradeToInsecure",
       "CheckValidUntil", "ValidUntilMin", "ValidUntilMax" >>

KnownOptionName == {KnownOrder[i] : i \in 1..Len(KnownOrder)}

\* KnownOptionName::to_deb822
KnownToDeb822(k) ==
    CASE k = "Types" -> <<"Types">>
      [] k = "Uris" -> <<"URIs">>
      [] k = "Suites" -> <<"Suites">>
      [] k = "Components" -> <<"Components">>
      [] k = "Enabled" -> <<"Enabled">>
      [] k = "Architectures" -> <<"Architectures">>
      [] k = "Languages" -> <<"Languages">>
      [] k = "Targets" -> <<"Targets">>
      [] k = "PDiffs" -> <<"PDiffs">>
      [] k = "ByHash" -> <<"By-Hash">>
      [] k = "AllowInsecure" -> <<"Allow-Insecure">>
      [] k = "AllowWeak" -> <<"Allow-Weak">>
      [] k = "AllowDowngradeToInsecure" -> <<"Allow-Downgrade-To-Insecure">>
      [] k = "Trusted" -> <<"Trusted">>
      [] k = "SignedBy" -> <<"Signed-By">>
      [] k = "CheckValidUntil" -> <<"Check-Valid-Until">>
      [] k = "ValidUntilMin" -> <<"Valid-Until-Min">>
      [] k = "ValidUntilMax" -> <<"Valid-Until-Max">>
      [] k = "RepolibName" -> <<"X-Repolib-Name">>

\* KnownOptionName::from_str: the name, or "" for Err(InvalidOptionName).
KnownFromStr(s) ==
    LET l == ToLowercase(s) IN
    CASE l = <<"types">> -> "Types"
      [] l = <<"uris">> -> "Uris"
      [] l = <<"suites">> -> "Suites"
      [] l = <<"components">> -> "Components"
      [] l = <<"enabled">> -> "Enabled"
      [] l \in {<<"architectures">>, <<"arch">>} -> "Architectures"
      [] l \in {<<"languages">>, <<"lang">>} -> "Languages"
      [] l \in {<<"targets">>, <<"target">>} -> "Targets"
      [] l = <<"pdiffs">> -> "PDiffs"
      [] l = <<"by-hash">> -> "ByHash"
      [] l = <<"allow-insecure">> -> "AllowInsecure"
      [] l = <<"allow-weak">> -> "AllowWeak"
      [] l = <<"allow-downgrade-to-insecure">> -> "AllowDowngradeToInsecure"
      [] l = <<"trusted">> -> "Trusted"
      [] l = <<"signed-by">> -> "SignedBy"
      [] l = <<"check-valid-until">> -> "CheckValidUntil"
      [] l = <<"valid-until-min">> -> "ValidUntilMin"
      [] l = <<"valid-until-max">> -> "ValidUntilMax"
      [] OTHER -> ""

\* enum OptionName
Known(k)  == [known |-> TRUE, k |-> k, c |-> <<>>]
Custom(s) == [known |-> FALSE, k |-> "", c |-> s]

\* OptionName::is_known
IsKnown(name) == name.known

\* OptionName::to_deb822
NameToDeb822(name) == IF name.known THEN KnownToDeb822(name.k) ELSE name.c

\* The first byte of each atom that is used in a custom option name.  These atoms
\* start with distinct bytes, so comparing strings of them atom by atom is
\* comparing them byte by byte.
AtomByte(a) ==
    CASE a = "B" -> 66
      [] a = "Lang" -> 76
      [] a = "Types" -> 84
      [] a = "lang" -> 108
      [] a = "signed-by" -> 115
      [] a = "a" -> 97
      [] a = "b" -> 98
      [] a = "c" -> 99
      [] a = "d" -> 100
      [] OTHER -> 127

\* Ord for String: lexicographic by byte.
RECURSIVE StrLess(_, _)
StrLess(s, t) ==
    IF t = <<>> THEN FALSE
    ELSE IF s = <<>> THEN TRUE
    ELSE IF AtomByte(Head(s)) < AtomByte(Head(t)) THEN TRUE
    ELSE IF AtomByte(Head(s)) > AtomByte(Head(t)) THEN FALSE
    ELSE StrLess(Tail(s), Tail(t))

KnownIndex(k) == CHOOSE i \in 1..Len(KnownOrder) : KnownOrder[i] = k

\* derive(PartialOrd, Ord) for OptionName: Known before Custom, Known by
\* declaration order, Custom by string.
NameLess(x, y) ==
    IF x.known /\ y.known THEN KnownIndex(x.k) < KnownIndex(y.k)
    ELSE IF x.known THEN TRUE
    ELSE IF y.known THEN FALSE
    ELSE StrLess(x.c, y.c)

-----------------------------------------------------------------------------
(* Option values (option.rs). *)

\* enum OptionValue
StringV(s)    == [kind |-> "String", s |-> s, l |-> <<>>, b |-> FALSE]
ListV(l)      == [kind |-> "List", s |-> <<>>, l |-> l, b |-> FALSE]
BoolV(b)      == [kind |-> "Bool", s |-> <<>>, l |-> <<>>, b |-> b]
MultilineV(l) == [kind |-> "Multiline", s |-> <<>>, l |-> l, b |-> FALSE]

IsTruthy(s) == ToLowercase(s) \in {<<"yes">>, <<"true">>}
IsFalsey(s) == ToLowercase(s) \in {<<"no">>, <<"false">>}

\* From<Cow<str>> for OptionValue (and From<String>, From<&str>)
ValueFromStr(s) ==
    IF IsTruthy(s) THEN BoolV(TRUE)
    ELSE IF IsFalsey(s) THEN BoolV(FALSE)
    ELSE StringV(s)

\* From<Vec<String>> for OptionValue (and From<Vec<&str>>, From<Vec<SourceType>>)
ValueFromVec(l) == IF Len(l) = 1 THEN ValueFromStr(l[1]) ELSE ListV(l)

\* OptionValue::is_empty
IsEmpty(v) ==
    CASE v.kind = "String" -> Trim(v.s) = <<>>
      [] v.kind = "List" -> v.l = <<>>
      [] v.kind = "Bool" -> FALSE
      [] v.kind = "Multiline" -> v.l = <<>>

\* The Multiline arm of OptionValue::to_deb822 that writes blank lines as they
\* are.
RECURSIVE MultilineBodyUnescaped(_)
MultilineBodyUnescaped(l) ==
    IF l = <<>> THEN <<>>
    ELSE <<" ">> \o l[1] \o <<"\n">> \o MultilineBodyUnescaped(Tail(l))

\* The Multiline arm of OptionValue::to_deb822: each line after a space, a blank
\* line as a dot.
RECURSIVE MultilineBody(_)
MultilineBody(l) ==
    IF l = <<>> THEN <<>>
    ELSE <<" ">> \o (IF Trim(l[1]) = <<>> THEN <<".">> ELSE l[1]) \o <<"\n">>
         \o MultilineBody(Tail(l))

\* OptionValue::to_deb822
ValueToDeb822(v) ==
    CASE v.kind = "String" -> v.s
      [] v.kind = "List" -> Join(v.l, <<" ">>)
      [] v.kind = "Bool" -> IF v.b THEN <<"yes">> ELSE <<"no">>
      [] v.kind = "Multiline" -> <<"\n">> \o MultilineBody(v.l)

-----------------------------------------------------------------------------
(* The option map (option.rs).  An OptionMap is a function from OptionName   *)
(* to OptionValue; the HashMap's iteration order is not part of its value.  *)

\* OptionMap::new
NewMap == << >>

\* HashMap::insert
HashInsert(m, name, value) ==
    [n \in DOMAIN m \cup {name} |-> IF n = name THEN value ELSE m[n]]

\* OptionMap::insert
Insert(m, name, value) ==
    IF ~IsEmpty(value) THEN HashInsert(m, name, value) ELSE m

\* OptionMap::contains
MapContains(m, name) == name \in DOMAIN m

\* enum SigningKey
KeyFile(path)    == [kind |-> "File", path |-> path, value |-> StringV(<<>>)]
KeyInline(value) == [kind |-> "Inline", path |-> <<>>, value |-> value]

Ok(v)  == [ok |-> TRUE, val |-> v, err |-> "", arg |-> <<>>]
Err(kind, arg) == [ok |-> FALSE, val |-> << >>, err |-> kind, arg |-> arg]
NoResult == [ok |-> FALSE, val |-> << >>, err |-> "none", arg |-> <<>>]

\* OptionMap::insert_key that replaces an existing Signed-By.
InsertKeyOverwriting(m, key) ==
    LET value == IF key.kind = "File" THEN ValueFromStr(key.path) ELSE key.value
    IN  Ok(Insert(m, Known("SignedBy"), value))

\* OptionMap::insert_key: the new map, or Err(ConflictingKeyLocations).
InsertKey(m, key) ==
    IF MapContains(m, Known("SignedBy")) THEN Err("ConflictingKeyLocations", <<>>)
    ELSE LET value == IF key.kind = "File" THEN ValueFromStr(key.path) ELSE key.value
         IN  Ok(Insert(m, Known("SignedBy"), value))

\* Vec::sort_by(cmp) on names: a stable insertion sort.
RECURSIVE SortInsert(_, _)
SortInsert(sorted, x) ==
    IF sorted = <<>> THEN <<x>>
    ELSE IF NameLess(x, Head(sorted)) THEN <<x>> \o sorted
    ELSE <<Head(sorted)>> \o SortInsert(Tail(sorted), x)

RECURSIVE SortNames(_)
SortNames(s) ==
    IF s = <<>> THEN <<>>
    ELSE SortInsert(SortNames(SubSeq(s, 1, Len(s) - 1)), s[Len(s)])

\* SelectSeq with a two-argument test kept as an operator of the names.
RECURSIVE FilterCustom(_)
FilterCustom(s) ==
    IF s = <<>> THEN <<>>
    ELSE (IF ~IsKnown(Head(s)) THEN <<Head(s)>> ELSE <<>>) \o FilterCustom(Tail(s))

\* The loop over KnownOptionName::iter() in OptionMap::options.
RECURSIVE KnownPresent(_, _)
KnownPresent(m, i) ==
    IF i > Len(KnownOrder) THEN <<>>
    ELSE (IF Known(KnownOrder[i]) \in DOMAIN m THEN <<Known(KnownOrder[i])>> ELSE <<>>)
         \o KnownPresent(m, i + 1)

\* OptionMap::options with the custom options left in the HashMap's order.
OptionsUnsorted(m, iter) ==
    LET names == KnownPresent(m, 1) \o FilterCustom(iter)
    IN  [i \in 1..Len(names) |-> <<names[i], m[names[i]]>>]

\* OptionMap::options, for a HashMap that iterates in the order iter.
Options(m, iter) ==
    LET custom_options == SortNames(FilterCustom(iter))
        names == KnownPresent(m, 1) \o custom_options
    IN  [i \in 1..Len(names) |-> <<names[i], m[names[i]]>>]

\* FromIterator for OptionMap: HashMap's collect, a later pair replacing an
\* earlier one of the same name.
RECURSIVE FromIter(_)
FromIter(pairs) ==
    IF pairs = <<>> THEN NewMap
    ELSE HashInsert(FromIter(SubSeq(pairs, 1, Len(pairs) - 1)),
                    pairs[Len(pairs)][1], pairs[Len(pairs)][2])

-----------------------------------------------------------------------------
(* `--option key=value` arguments (parse.rs). *)

\* str::split_once(a): <<TRUE, before, after>> or <<FALSE, <<>>, <<>>>>.
SplitOnce(s, a) ==
    LET i == IndexFrom(s, a, 1) IN
    IF i = 0 THEN <<FALSE, <<>>, <<>>>>
    ELSE <<TRUE, SubSeq(s, 1, i - 1), SubSeq(s, i + 1, Len(s))>>

\* parse_custom_option resolving a key of the alias table even when
\* force_literal is set.
ParseCustomOptionResolving(option, force_literal) ==
    LET sp == SplitOnce(Trim(option), "=")
        key == sp[2]
        value == sp[3]
        option_value ==
            IF Contains(value, ",") THEN ValueFromVec(Split(value, ","))
            ELSE ValueFromStr(value)
    IN  IF ~sp[1] THEN Err("MalformedOption", option)
        ELSE IF KnownFromStr(key) # "" THEN Ok(<<Known(KnownFromStr(key)), option_value>>)
        ELSE IF force_literal THEN Ok(<<Custom(key), option_value>>)
        ELSE Err("InvalidOptionName", key)

\* parse_custom_option: Ok(<<name, value>>) or an error.
ParseCustomOption(option, force_literal) ==
    LET sp == SplitOnce(Trim(option), "=")
        key == sp[2]
        value == sp[3]
        option_value ==
            IF Contains(value, ",") THEN ValueFromVec(Split(value, ","))
            ELSE ValueFromStr(value)
    IN  IF ~sp[1] THEN Err("MalformedOption", option)
        ELSE IF force_literal THEN Ok(<<Custom(key), option_value>>)
        ELSE IF KnownFromStr(key) = "" THEN Err("InvalidOptionName", key)
        ELSE Ok(<<Known(KnownFromStr(key)), option_value>>)

\* Iterator::collect::<Result<OptionMap, _>>() over the parsed options, as in
\* SourceEntry::from_new_args: the first error, or the map of all the pairs.
RECURSIVE FirstError(_, _)
FirstError(options, force_literal) ==
    IF options = <<>> THEN NoResult
    ELSE IF ~ParseCustomOption(Head(options), force_literal).ok
         THEN ParseCustomOption(Head(options), force_literal)
    ELSE FirstError(Tail(options), force_literal)

CollectOptions(options, force_literal) ==
    IF FirstError(options, force_literal) # NoResult
    THEN FirstError(options, force_literal)
    ELSE Ok(FromIter([i \in 1..Len(options) |->
                         ParseCustomOption(options[i], force_literal).val]))

-----------------------------------------------------------------------------
(* The grammar of a one-line entry (line.pest, rule `line`):                 *)
(*   type WS? ("[" option_list "]")? WS uri WS suite (WS component)+         *)
(* with leading and trailing whitespace allowed, as parse_line_file hands    *)
(* indented lines to the parser.                                             *)

\* Rule source_type: the two source types.
SourceTypes == {"deb", "deb-src"}

\* The atoms that end a token of the grammar.
GrammarBrackets == {"[", "]"}

\* Length of the leading run of non-whitespace atoms of s.
RECURSIVE WordLen(_)
WordLen(s) ==
    IF s = <<>> \/ IsWs(Head(s)) THEN 0 ELSE 1 + WordLen(Tail(s))

\* The whitespace-separated tokens of s, in order.
RECURSIVE Words(_)
Words(s) ==
    LET t == TrimStart(s) IN
    IF t = <<>> THEN <<>>
    ELSE <<SubSeq(t, 1, WordLen(t))>> \o Words(SubSeq(t, WordLen(t) + 1, Len(t)))

NoMatch == [ok |-> FALSE, name |-> <<>>, values |-> <<>>]

\* Rule option: `name=value1,value2,...`, one name and at least one value, no
\* value empty.
GrammarOption(tok) ==
    LET sp == SplitOnce(tok, "=")
        values == Split(sp[3], ",")
    IN  IF ~sp[1] THEN NoMatch
        ELSE IF Len(sp[2]) # 1 \/ sp[2][1] \in GrammarBrackets \cup {","} THEN NoMatch
        ELSE IF \E i \in 1..Len(values) :
                   \/ values[i] = <<>>
                   \/ \E j \in 1..Len(values[i]) : values[i][j] \in GrammarBrackets
             THEN NoMatch
        ELSE [ok |-> TRUE, name |-> sp[2], values |-> values]

NoLine == [ok |-> FALSE, type |-> <<>>, options |-> <<>>, params |-> <<>>]

\* Rule line: the pairs the parser walks over (source_type, option_list,
\* param...), or no match.
GrammarLine(s) ==
    LET t == TrimStart(s)
        rest == Tail(t)
        r == TrimStart(rest)
        hasList == r # <<>> /\ Head(r) = "["
        close == IndexFrom(r, "]", 1)
        opts == Words(SubSeq(r, 2, close - 1))
        after == IF hasList THEN SubSeq(r, close + 1, Len(r)) ELSE rest
        params == Words(after)
    IN  IF t = <<>> THEN NoLine
        ELSE IF Head(t) \notin SourceTypes THEN NoLine
        ELSE IF hasList /\ close = 0 THEN NoLine
        ELSE IF hasList /\ opts = <<>> THEN NoLine
        ELSE IF hasList /\ \E i \in 1..Len(opts) : ~GrammarOption(opts[i]).ok THEN NoLine
        ELSE IF after = <<>> THEN NoLine
        ELSE IF ~IsWs(Head(after)) THEN NoLine
        ELSE IF Len(params) < 3 THEN NoLine
        ELSE [ok |-> TRUE,
              type |-> <<Head(t)>>,
              options |-> IF hasList
                          THEN [i \in 1..Len(opts) |-> GrammarOption(opts[i])]
                          ELSE <<>>,
              params |-> params]

-----------------------------------------------------------------------------
(* parse_line_entry (parse.rs). *)

\* parse_option_name that takes an unrecognised name for a known one.
ParseOptionNameAccepting(option_name) ==
    Ok(IF KnownFromStr(option_name) = "" THEN "Architectures"
       ELSE KnownFromStr(option_name))

\* parse_option_name that reports an unrecognised name with a kind of its own.
ParseOptionNameOwnKind(option_name) ==
    IF KnownFromStr(option_name) = ""
    THEN Err("InvalidOptionName", option_name)
    ELSE Ok(KnownFromStr(option_name))

\* parse_option_name
ParseOptionName(option_name) ==
    IF KnownFromStr(option_name) = ""
    THEN Err("MalformedOneLineEntry", option_name)
    ELSE Ok(KnownFromStr(option_name))

\* The Rule::option_list arm: every option inserted in turn, the first
\* unrecognised name ending the parse.
RECURSIVE InsertOptionList(_, _)
InsertOptionList(m, opts) ==
    IF opts = <<>> THEN Ok(m)
    ELSE IF ~ParseOptionName(Head(opts).name).ok THEN ParseOptionName(Head(opts).name)
    ELSE InsertOptionList(Insert(m, Known(ParseOptionName(Head(opts).name).val),
                                 ValueFromVec(Head(opts).values)),
                          Tail(opts))

\* `if let &[uri, suite, ref components @ ..] = params.as_slice()`
InsertParams(m, params) ==
    Insert(Insert(Insert(m, Known("Uris"), ValueFromStr(params[1])),
                  Known("Suites"), ValueFromStr(params[2])),
           Known("Components"), ValueFromVec(SubSeq(params, 3, Len(params))))

\* parse_line_entry that leaves Enabled to its callers.
InsertEnabledSkipped(m) == m

\* `option_map.insert(KnownOptionName::Enabled, true)`
InsertEnabled(m) == Insert(m, Known("Enabled"), BoolV(TRUE))

\* parse_line_entry: Ok(map) or Err(MalformedOneLineEntry).
ParseLineEntry(e) ==
    LET g == GrammarLine(e)
        withType == Insert(NewMap, Known("Types"), ValueFromStr(g.type))
        withOptions == InsertOptionList(withType, g.options)
    IN  IF ~g.ok THEN Err("MalformedOneLineEntry", <<"syntax">>)
        ELSE IF ~withOptions.ok THEN withOptions
        ELSE Ok(InsertEnabled(InsertParams(withOptions.val, g.params)))

-----------------------------------------------------------------------------
(* parse_line_file (parse.rs). *)

\* COMMENT_CHAR
CommentChar == "#"

\* enum ConvertedLineEntry
EntryItem(option_map) == [kind |-> "Entry", options |-> option_map, text |-> <<>>]
CommentItem(comment)  == [kind |-> "Comment", options |-> NewMap, text |-> comment]

\* The part of a comment line after the first comment character, trimmed.
DisabledLine(l) == Trim(SplitOnce(l, CommentChar)[3])

\* A commented-out entry that is left enabled.
DisableEntrySkipped(option_map) == option_map

\* `option_map.insert(KnownOptionName::Enabled, false)`
DisableEntry(option_map) == Insert(option_map, Known("Enabled"), BoolV(FALSE))

\* The loop of parse_line_file over the lines still to read, entry_list holding
\* the items pushed so far: Ok(entry_list) or the first error.
RECURSIVE ParseLines(_, _, _)
ParseLines(ls, options, entry_list) ==
    IF ls = <<>> THEN Ok(entry_list)
    ELSE
      LET l == Head(ls)
          trimmed == Trim(l)
          disabled == ParseLineEntry(DisabledLine(l))
          active == ParseLineEntry(l)
      IN  IF trimmed = <<>> THEN ParseLines(Tail(ls), options, entry_list)
          ELSE IF Head(trimmed) = CommentChar
          THEN IF disabled.ok
               THEN IF options.skip_disabled
                    THEN ParseLines(Tail(ls), options, entry_list)
                    ELSE ParseLines(Tail(ls), options,
                                    Append(entry_list, EntryItem(DisableEntry(disabled.val))))
               ELSE IF disabled.err = "MalformedOneLineEntry"
               THEN IF options.skip_comments
                    THEN ParseLines(Tail(ls), options, entry_list)
                    ELSE ParseLines(Tail(ls), options,
                                    Append(entry_list, CommentItem(DisabledLine(l))))
               ELSE disabled
          ELSE IF ~active.ok THEN active
          ELSE ParseLines(Tail(ls), options, Append(entry_list, EntryItem(active.val)))

\* parse_line_file
ParseLineFile(text, options) == ParseLines(Lines(text), options, <<>>)

-----------------------------------------------------------------------------
(* The values every idle part of the model holds. *)

\* A path of the file system: absent, or a file with its content.
NoFile == [exists |-> FALSE, data |-> <<>>]
FileOf(content) == [exists |-> TRUE, data |-> content]
NoPlan == [ok |-> FALSE, val |-> "", err |-> "none", arg |-> <<>>]
IdleOp == [op |-> "idle", n |-> 0, before |-> NewMap]

\* Command::report: None, or the lines of the report.
NoReport == [some |-> FALSE, lines |-> <<>>]
ReportOf(lines) == [some |-> TRUE, lines |-> lines]

\* SigningKeyArgs and KeyDestinationArgs: no key given and none to inline.
NoKeyArgs == [key |-> FALSE, inline |-> FALSE]

InstallIdle ==
    /\ file = NoFile
    /\ ipc = "idle"
    /\ action = "Fail"
    /\ entry = NewMap
    /\ plan = NoPlan
    /\ ires = NoResult
    /\ atOpen = NoFile
    /\ raced = FALSE
    /\ installs = 0
    /\ idry = FALSE
    /\ ikeyargs = NoKeyArgs
    /\ ikey = NoFile
    /\ ireport = NoReport

OptionsIdle ==
    /\ map = NewMap
    /\ ores = NoResult
    /\ olast = IdleOp

ParseIdle ==
    /\ line = <<>>
    /\ pres = NoResult
    /\ ppc = "idle"

EncodeIdle ==
    /\ emap = NewMap
    /\ evalue = StringV(<<>>)
    /\ etext = <<>>
    /\ epc = "idle"

NoOptions == [skip_comments |-> FALSE, skip_disabled |-> FALSE]

LineFileIdle ==
    /\ lfile = <<>>
    /\ lopts = NoOptions
    /\ lres = NoResult
    /\ lpc = "idle"

\* The paths of the file system the converter touches: the input file, its
\* default backup (the input path with BACKUP_SUFFIX), the output file and a
\* path given with --backup-to.
InPath == <<"myrepo.list">>
DefaultBackupPath == <<"myrepo.list", ".bak">>
OutPath == <<"myrepo.sources">>
OtherPath == <<"elsewhere">>
FsPaths == {InPath, DefaultBackupPath, OutPath, OtherPath}

NoArgs == [by_name |-> FALSE, in_stdio |-> FALSE, out_stdio |-> FALSE,
           backup |-> FALSE, backup_to |-> <<>>,
           skip_comments |-> FALSE, skip_disabled |-> FALSE, dry_run |-> FALSE]

ConvertIdle ==
    /\ cfs = [p \in FsPaths |-> NoFile]
    /\ cfs0 = [p \in FsPaths |-> NoFile]
    /\ cargs = NoArgs
    /\ cstdin = <<>>
    /\ centries = <<>>
    /\ cpc = "idle"
    /\ cres = NoResult
    /\ ctemp = <<>>
    /\ cstdout = <<>>
    /\ creport = NoReport

CustomIdle ==
    /\ qoption = <<>>
    /\ qforce = FALSE
    /\ qres = NoResult
    /\ qpc = "idle"

NameIdle ==
    /\ nname = ""
    /\ ntext = <<>>
    /\ nres = NoResult
    /\ npc = "idle"

\* No child process, no pipe and no reader thread.
NoKey == [encoding |-> "Binary", id |-> FALSE, len |-> 0]
NoPipes == [stdin |-> 0, stdout |-> 0, stderr |-> 0, cap |-> 0, stdin_open |-> FALSE]
NoChild == [state |-> "none", order |-> "read_first", out |-> 0, err |-> 0,
            eof |-> FALSE, status |-> "none"]
NoThreads == [stdout |-> "unstarted", stderr |-> "unstarted", outn |-> 0, errn |-> 0]

PipeIdle ==
    /\ gop = "none"
    /\ gkey = NoKey
    /\ gpc = "idle"
    /\ gleft = 0
    /\ gpipes = NoPipes
    /\ gchild = NoChild
    /\ gthreads = NoThreads
    /\ gres = NoResult

FinalIdle == CustomIdle /\ NameIdle /\ PipeIdle

LaterIdle == EncodeIdle /\ LineFileIdle /\ ConvertIdle /\ FinalIdle

-----------------------------------------------------------------------------
(* Building an option map: the operations of OptionMap, applied by           *)
(* SourceEntry::from_new_args, from_add_args and install_key.               *)

\* The option names and values the operations are tried with.
NamePool ==
    { Known("Enabled"), Known("SignedBy"),
      Custom(<<"a", "b">>), Custom(<<"a">>), Custom(<<"B">>) }

ValuePool ==
    { StringV(<<"v">>), StringV(<<" ">>), BoolV(TRUE), ListV(<<>>), MultilineV(<<>>) }

KeyPool ==
    { KeyFile(<<"/key.gpg">>), KeyInline(MultilineV(<< <<"k">>, <<>> >>)),
      KeyInline(MultilineV(<<>>)) }

OptionArgPool ==
    { <<"lang", "=", " ">>, <<"Lang", "=", "x", ",", "y">>, <<"a", "=", "v">>,
      <<"bogus">>, <<" ", "signed-by", "=", "/key.gpg">> }

OptionsInit ==
    /\ map = NewMap
    /\ ores = NoResult
    /\ olast = [op |-> "new", n |-> 0, before |-> NewMap]
    /\ InstallIdle
    /\ ParseIdle
    /\ LaterIdle

\* OptionMap::insert
OptInsert(name, value) ==
    /\ olast.op # "idle"
    /\ olast.n < MaxMapOps
    /\ map' = Insert(map, name, value)
    /\ ores' = Ok(<< >>)
    /\ olast' = [op |-> "insert", n |-> olast.n + 1, before |-> map]
    /\ UNCHANGED <<installVars, parseVars, laterVars>>

\* OptionMap::insert_key, called by SourceEntry::install_key
OptInsertKey(key) ==
    /\ olast.op # "idle"
    /\ olast.n < MaxMapOps
    /\ map' = IF InsertKey(map, key).ok THEN InsertKey(map, key).val ELSE map
    /\ ores' = IF InsertKey(map, key).ok THEN Ok(<< >>) ELSE InsertKey(map, key)
    /\ olast' = [op |-> "insert_key", n |-> olast.n + 1, before |-> map]
    /\ UNCHANGED <<installVars, parseVars, laterVars>>

\* The first statement of SourceEntry::from_new_args: the map collected from the
\* `--option` arguments.  An error ends the construction.
OptCollect(options, force_literal) ==
    /\ olast.op = "new"
    /\ map' = IF CollectOptions(options, force_literal).ok
              THEN CollectOptions(options, force_literal).val ELSE map
    /\ ores' = IF CollectOptions(options, force_literal).ok
               THEN Ok(<< >>) ELSE CollectOptions(options, force_literal)
    /\ olast' = [op |-> "collect",
                 n |-> IF CollectOptions(options, force_literal).ok
                       THEN olast.n + 1 ELSE MaxMapOps,
                 before |-> map]
    /\ UNCHANGED <<installVars, parseVars, laterVars>>

OptionsNext ==
    \/ \E name \in NamePool, value \in ValuePool : OptInsert(name, value)
    \/ \E key \in KeyPool : OptInsertKey(key)
    \/ \E options \in SeqsUpTo(OptionArgPool, 2), f \in BOOLEAN : OptCollect(options, f)

SpecOptions == OptionsInit /\ [][OptionsNext]_vars

-----------------------------------------------------------------------------
(* Installing a source entry (entry.rs). *)

\* The path of the source file, SourceFile::path.
TargetPath == <<"/etc/apt/sources.list.d/myrepo.sources">>

OverwriteAction == {"Overwrite", "Append", "Fail"}

\* InstallPlan::new: the planned InstallPlanAction, or the already-exists error.
InstallPlanNew(exists, act) ==
    CASE act = "Overwrite" -> Ok("Overwrite")
      [] act = "Append" -> Ok("Append")
      [] act = "Fail" /\ ~exists -> Ok("Create")
      [] act = "Fail" /\ exists -> Err("NewSourceFileAlreadyExists", TargetPath)

\* What the operating system answers to an open, the existence of the path
\* aside: the open succeeds, is refused for lack of permission, or fails otherwise.
IoOutcome == {"ok", "denied", "error"}

\* The error arms of SourceEntry::open_source_file.
OpenError(io) ==
    IF io = "denied" THEN Err("PermissionDenied", <<>>) ELSE Err("Io", <<>>)

\* SourceEntry::open_source_file with create(true) in place of create_new(true).
OpenSourceFileTrusting(f, act, io) ==
    IF io # "ok" THEN [res |-> OpenError(io), file |-> f]
    ELSE IF act = "Overwrite" THEN [res |-> Ok(<< >>), file |-> FileOf(<<>>)]
    ELSE [res |-> Ok(<< >>), file |-> FileOf(f.data)]

\* SourceEntry::open_source_file on the path f: the result and the path
\* afterwards.  create_new fails with AlreadyExists whenever the path exists;
\* create makes an absent file empty, truncate empties it.
OpenSourceFile(f, act, io) ==
    IF act = "Fail" /\ f.exists
    THEN [res |-> Err("NewSourceFileAlreadyExists", TargetPath), file |-> f]
    ELSE IF io # "ok" THEN [res |-> OpenError(io), file |-> f]
    ELSE IF act = "Overwrite" THEN [res |-> Ok(<< >>), file |-> FileOf(<<>>)]
    ELSE [res |-> Ok(<< >>), file |-> FileOf(f.data)]

\* SourceEntry::write_options: one `name: value` line per option, in the order
\* of OptionMap::options.
RECURSIVE WriteOptionLines(_)
WriteOptionLines(opts) ==
    IF opts = <<>> THEN <<>>
    ELSE NameToDeb822(opts[1][1]) \o <<":", " ">> \o ValueToDeb822(opts[1][2]) \o <<"\n">>
         \o WriteOptionLines(Tail(opts))

WriteOptions(m, iter) == WriteOptionLines(Options(m, iter))

\* Write::write_all at position pos of a file.
WriteAt(content, pos, bytes) ==
    SubSeq(content, 1, pos) \o bytes \o SubSeq(content, pos + Len(bytes) + 1, Len(content))

\* The separator SourceEntry::install_to writes under Append: a newline when the
\* last line read from the file is not blank.
AppendSeparator(content) ==
    LET ls == Lines(content) IN
    IF ls # <<>> /\ Trim(ls[Len(ls)]) # <<>> THEN <<"\n">> ELSE <<>>

\* SourceEntry::install_to on a file just opened (position 0): the content after.
InstallTo(content, act, m, iter) ==
    IF act = "Append"
    THEN WriteAt(content, Len(content), AppendSeparator(content) \o WriteOptions(m, iter))
    ELSE WriteAt(content, 0, WriteOptions(m, iter))

\* The atoms of the initial content of the target file, and the initial contents.
FileAtoms == {"w", " ", "\n"}
InitialFiles == {NoFile} \cup {FileOf(c) : c \in SeqsUpTo(FileAtoms, MaxInitLen)}

\* What another process may create at the target path.
ExternalFiles == {<<>>, <<"w", "\n">>}

\* The entries installed: as built by from_new_args, with an inlined key, and
\* with an inlined key and an option that follows Signed-By.
EntryPlain  == Insert(Insert(NewMap, Known("Uris"), StringV(<<"u">>)), Known("Enabled"), BoolV(TRUE))
EntryKeyed  == Insert(EntryPlain, Known("SignedBy"), MultilineV(<< <<"k">> >>))
EntryKeyedArch == Insert(EntryKeyed, Known("Architectures"), StringV(<<"amd64">>))
EntryPool   == {EntryPlain, EntryKeyed, EntryKeyedArch}

\* Where KeyDestination::from_args puts the key file of the source `myrepo`.
KeyPath == <<"/etc/apt/keyrings/myrepo-archive-keyring.gpg">>

\* The key as installed to a file, and as an inlined option value.
KeyBytes == <<"KEY">>
KeyValue == MultilineV(<< <<"k">> >>)

\* A key file left by an earlier run, which is there when the source file is.
StaleKey == <<"OLDKEY">>

\* The key arguments of a command: no key, a key installed to the keyring
\* directory, a key inlined in the entry.
KeyArgsPool ==
    {[key |-> FALSE, inline |-> FALSE], [key |-> TRUE, inline |-> FALSE],
     [key |-> TRUE, inline |-> TRUE]}

\* main.rs, run, with the test of cli.dry_run left out: the command always
\* runs.
RunsCommandAlways(dry_run) == TRUE

\* main.rs, run: `if !cli.dry_run { command.run()?; }`.
RunsCommand(dry_run) == ~dry_run

\* SourceEntry::install_key: the key is fetched and written to the key file
\* (File::create truncates one that is there) or turned into an option value,
\* then recorded in the entry with insert_key.  The result, the entry and the
\* key file afterwards.
InstallKeyTo(e, keyfile, keyargs, io) ==
    IF ~keyargs.key THEN [res |-> Ok(<<>>), entry |-> e, keyfile |-> keyfile]
    ELSE IF io # "ok" THEN [res |-> OpenError(io), entry |-> e, keyfile |-> keyfile]
    ELSE LET key == IF keyargs.inline THEN KeyInline(KeyValue) ELSE KeyFile(KeyPath)
             inserted == InsertKey(e, key)
         IN  [res |-> IF inserted.ok THEN Ok(<<>>) ELSE inserted,
              entry |-> IF inserted.ok THEN inserted.val ELSE e,
              keyfile |-> IF keyargs.inline THEN keyfile ELSE FileOf(KeyBytes)]

\* NewCommand::report and AddCommand::report: a line for the key file unless
\* the key is inlined, and a line for the planned action.
InstallReport(p, keyargs) ==
    ReportOf((IF keyargs.inline THEN <<>> ELSE << <<"Installed signing key", KeyPath>> >>)
             \o << <<p.val, TargetPath>> >>)

InstallInit ==
    /\ file \in InitialFiles
    /\ ipc = "start"
    /\ action = "Fail"
    /\ entry = NewMap
    /\ plan = NoPlan
    /\ ires = NoResult
    /\ atOpen = NoFile
    /\ raced = FALSE
    /\ installs = 0
    /\ idry = FALSE
    /\ ikeyargs = NoKeyArgs
    /\ ikey = IF file.exists THEN FileOf(StaleKey) ELSE NoFile
    /\ ireport = NoReport
    /\ OptionsIdle
    /\ ParseIdle
    /\ LaterIdle

\* The commands invoked: each entry with no key, the plain entry also with a
\* key for the keyring directory or to inline, and a dry run of the plain entry
\* with a key for the keyring directory.
CommandPool ==
    {[entry |-> e, keyargs |-> NoKeyArgs, dry |-> FALSE] : e \in EntryPool}
    \cup {[entry |-> EntryPlain, keyargs |-> k, dry |-> FALSE] : k \in KeyArgsPool}
    \cup {[entry |-> EntryPlain, keyargs |-> [key |-> TRUE, inline |-> FALSE], dry |-> TRUE]}

InstallFrame == <<optionVars, parseVars, laterVars>>

\* A command is invoked: NewCommand or AddCommand with its entry, policy and
\* key arguments, with or without --dry-run.
Invoke(act, e, keyargs, dry) ==
    /\ ipc \in {"start", "done", "failed", "reported"}
    /\ installs < MaxInstalls
    /\ action' = act
    /\ entry' = e
    /\ idry' = dry
    /\ ikeyargs' = keyargs
    /\ ipc' = "ready"
    /\ plan' = NoPlan
    /\ ires' = NoResult
    /\ ireport' = NoReport
    /\ atOpen' = NoFile
    /\ raced' = FALSE
    /\ installs' = installs + 1
    /\ UNCHANGED <<file, ikey, InstallFrame>>

\* InstallPlan::new, at the construction of the command; its error ends the command.
Plan ==
    /\ ipc = "ready"
    /\ plan' = InstallPlanNew(file.exists, action)
    /\ ipc' = IF InstallPlanNew(file.exists, action).ok THEN "planned" ELSE "failed"
    /\ UNCHANGED <<file, action, entry, ires, atOpen, raced, installs,
                   idry, ikeyargs, ikey, ireport, InstallFrame>>

\* Another process creates the target path before the installer opens it.
OtherProcessCreates(content) ==
    /\ ipc \in {"ready", "planned"}
    /\ ~file.exists
    /\ file' = FileOf(content)
    /\ raced' = TRUE
    /\ UNCHANGED <<ipc, action, entry, plan, ires, atOpen, installs,
                   idry, ikeyargs, ikey, ireport, InstallFrame>>

\* main.rs, run, with --dry-run: Command::run is skipped and the report of the
\* plan is printed.
DryReport ==
    /\ ipc = "planned"
    /\ ~RunsCommand(idry)
    /\ ireport' = InstallReport(plan, ikeyargs)
    /\ ipc' = "reported"
    /\ UNCHANGED <<file, action, entry, plan, ires, atOpen, raced, installs,
                   idry, ikeyargs, ikey, InstallFrame>>

\* NewCommand::run and AddCommand::run, first statement: install_key.
InstallKey(io) ==
    /\ ipc = "planned"
    /\ RunsCommand(idry)
    /\ LET installed == InstallKeyTo(entry, ikey, ikeyargs, io)
       IN  /\ entry' = installed.entry
           /\ ikey' = installed.keyfile
           /\ ires' = IF installed.res.ok THEN NoResult ELSE installed.res
           /\ ipc' = IF installed.res.ok THEN "keyed" ELSE "failed"
    /\ UNCHANGED <<file, action, plan, atOpen, raced, installs,
                   idry, ikeyargs, ireport, InstallFrame>>

\* SourceEntry::install, first statement: open_source_file.  install is reached
\* through the command (after install_key) or called directly, with no command
\* line (from "ready").
Open(io) ==
    /\ \/ ipc = "keyed"
       \/ ipc = "ready" /\ ~idry /\ ~ikeyargs.key
    /\ atOpen' = file
    /\ file' = OpenSourceFile(file, action, io).file
    /\ ires' = IF OpenSourceFile(file, action, io).res.ok THEN NoResult
               ELSE OpenSourceFile(file, action, io).res
    /\ ipc' = IF OpenSourceFile(file, action, io).res.ok THEN "opened" ELSE "done"
    /\ UNCHANGED <<action, entry, plan, raced, installs,
                   idry, ikeyargs, ikey, ireport, InstallFrame>>

\* SourceEntry::install, second statement: install_to on the opened file; the
\* command then prints its report.
Write(iter) ==
    /\ ipc = "opened"
    /\ file' = FileOf(InstallTo(file.data, action, entry, iter))
    /\ ires' = Ok(<< >>)
    /\ ireport' = IF plan.ok THEN InstallReport(plan, ikeyargs) ELSE NoReport
    /\ ipc' = "done"
    /\ UNCHANGED <<action, entry, plan, atOpen, raced, installs,
                   idry, ikeyargs, ikey, InstallFrame>>

InstallNext ==
    \/ \E act \in OverwriteAction, c \in CommandPool :
          Invoke(act, c.entry, c.keyargs, c.dry)
    \/ Plan
    \/ \E content \in ExternalFiles : OtherProcessCreates(content)
    \/ DryReport
    \/ \E io \in IoOutcome : InstallKey(io)
    \/ \E io \in IoOutcome : Open(io)
    \/ \E iter \in IterOrders(DOMAIN entry) : Write(iter)

SpecInstall == InstallInit /\ [][InstallNext]_vars

-----------------------------------------------------------------------------
(* Parsing a one-line entry for `debctl add` (parse.rs, entry.rs). *)

\* The lines the parser is tried with: a type token, an optional bracketed
\* option list, and positional tokens.
TypeTokens == {"deb", "deb-src", "rpm"}

BracketPool ==
    { <<>>,
      <<"[", "arch", "=", "amd64", "]">>,
      <<"[", "Types", "=", "deb-src", "]">>,
      <<"[", "enabled", "=", "no", " ", "lang", "=", "en", ",", "de", "]">>,
      <<"[", "uris", "=", "z", " ", "components", "=", "k", "]">>,
      <<"[", "suites", "=", "z", ",", "y", "]">>,
      <<"[", "trusted", "=", "TRUE", "]">>,
      <<"[", "bogus", "=", "x", "]">>,
      <<"[", "arch", "=", "amd64">> }

ParamAtoms == {"u", "s", "yes"}

ParamLists == {p \in SeqsUpTo(ParamAtoms, MaxParams) : Len(p) >= 2}

LeadPool == {<<>>, <<" ">>}

LineOf(lead, type, gap, bracket, params) ==
    lead \o <<type>> \o gap \o bracket \o <<" ">>
         \o Join([i \in 1..Len(params) |-> <<params[i]>>], <<" ">>)

LinePool ==
    { LineOf(lead, type, gap, bracket, params) :
        lead \in LeadPool, type \in TypeTokens, gap \in {<<>>, <<"\t">>},
        bracket \in BracketPool, params \in ParamLists }

\* Option<String>: the --description argument.
DescriptionPool == {[some |-> FALSE, s |-> <<>>], [some |-> TRUE, s |-> <<"d">>]}

ParseInit ==
    /\ line \in LinePool
    /\ pres = NoResult
    /\ ppc = "start"
    /\ InstallIdle
    /\ OptionsIdle
    /\ LaterIdle

\* parse_line_entry(&args.line), the first statement of from_add_args.
ParseEntry ==
    /\ ppc = "start"
    /\ pres' = ParseLineEntry(line)
    /\ ppc' = "parsed"
    /\ UNCHANGED <<line, installVars, optionVars, laterVars>>

\* The rest of SourceEntry::from_add_args: the parser's error is returned,
\* otherwise Enabled and the description are inserted.
FromAddArgs(disabled, description) ==
    /\ ppc = "parsed"
    /\ pres' = IF ~pres.ok THEN pres
               ELSE LET options == Insert(pres.val, Known("Enabled"), BoolV(~disabled))
                    IN  Ok(IF description.some
                           THEN Insert(options, Known("RepolibName"),
                                       ValueFromStr(description.s))
                           ELSE options)
    /\ ppc' = IF pres.ok THEN "added" ELSE "failed"
    /\ UNCHANGED <<line, installVars, optionVars, laterVars>>

ParseNext ==
    \/ ParseEntry
    \/ \E disabled \in BOOLEAN, description \in DescriptionPool :
          FromAddArgs(disabled, description)

SpecParse == ParseInit /\ [][ParseNext]_vars

-----------------------------------------------------------------------------
(* Serializing values and entries (option.rs, entry.rs). *)

\* The lines of a Multiline value: a key line, an empty line, a line of spaces.
BlockLines == {<<"k">>, <<>>, <<" ">>}

EncodeValues ==
    { StringV(<<"u">>), ListV(<< <<"x">>, <<"y">> >>), BoolV(FALSE) }
       \cup { MultilineV(l) : l \in SeqsUpTo(BlockLines, MaxBlockLines) }

\* The maps serialized: Signed-By and Trusted, each absent or holding one of
\* the values, built with OptionMap::insert.
EncodeMaps ==
    { Insert(Insert(NewMap, Known("SignedBy"), v), Known("Trusted"), w) :
        v \in EncodeValues \cup {ListV(<<>>)}, w \in EncodeValues \cup {ListV(<<>>)} }

\* SourceEntry::from_new_args for `debctl new --uri u --suite s` with the
\* default type and component and the given `--option` arguments: the options
\* are collected, then the known options of the other arguments are inserted.
FromNewArgs(option, force_literal_options) ==
    LET collected == CollectOptions(option, force_literal_options)
        uris == Insert(collected.val, Known("Uris"), ListV(<< <<"u">> >>))
        types == Insert(uris, Known("Types"), ListV(<< <<"deb">> >>))
        components == Insert(types, Known("Components"), ListV(<< <<"main">> >>))
        architectures == Insert(components, Known("Architectures"), ListV(<<>>))
        languages == Insert(architectures, Known("Languages"), ListV(<<>>))
        enabled == Insert(languages, Known("Enabled"), BoolV(TRUE))
        suites == Insert(enabled, Known("Suites"), ListV(<< <<"s">> >>))
    IN  IF collected.ok THEN Ok(suites) ELSE collected

\* The `--option` arguments of `debctl new`: none, or one spelled like a known
\* option's display name, like an alias, or like no known option.
NewOptionPool ==
    {<<>>, << <<"Types", "=", "v">> >>, << <<"Enabled", "=", "no">> >>,
     << <<"lang", "=", "v">> >>, << <<"bogus", "=", "v">> >>}

\* The maps `debctl new` builds, with and without --force-literal-options.
NewArgsMaps ==
    {FromNewArgs(x[1], x[2]).val :
        x \in {y \in NewOptionPool \X BOOLEAN : FromNewArgs(y[1], y[2]).ok}}

EncodeInit ==
    /\ emap \in EncodeMaps \cup NewArgsMaps
    /\ evalue = StringV(<<>>)
    /\ etext = <<>>
    /\ epc = "start"
    /\ InstallIdle
    /\ OptionsIdle
    /\ ParseIdle
    /\ LineFileIdle
    /\ ConvertIdle
    /\ FinalIdle

\* OptionValue::to_deb822
EncodeValue(v) ==
    /\ epc = "start"
    /\ evalue' = v
    /\ etext' = ValueToDeb822(v)
    /\ epc' = "value"
    /\ UNCHANGED <<emap, installVars, optionVars, parseVars, lineFileVars, convertVars, finalVars>>

\* SourceEntry::write_options into an empty buffer
WriteEntry(iter) ==
    /\ epc = "start"
    /\ etext' = WriteOptions(emap, iter)
    /\ epc' = "entry"
    /\ UNCHANGED <<emap, evalue, installVars, optionVars, parseVars, lineFileVars, convertVars, finalVars>>

EncodeNext ==
    \/ \E v \in EncodeValues : EncodeValue(v)
    \/ \E iter \in IterOrders(DOMAIN emap) : WriteEntry(iter)

SpecEncode == EncodeInit /\ [][EncodeNext]_vars

-----------------------------------------------------------------------------
(* Parsing a one-line-style file (parse.rs). *)

\* The lines of the files: an empty line, a line of whitespace, a comment, a
\* commented-out entry, an entry, an indented entry that is too short, and a
\* commented-out entry with an unknown option.
NoteLine     == <<"#", " ", "note">>
DisabledSrc  == <<" ", "#", "deb-src", " ", "u", " ", "s", " ", "c", " ">>
ActiveDeb    == <<"deb", " ", "u", " ", "s", " ", "c">>
ShortLine    == <<" ", "deb", " ", "u", " ", "s">>
BogusComment == <<"#", " ", "deb", " ", "[", "bogus", "=", "x", "]", " ", "u", " ", "s", " ", "c">>

FileLinePool == {<<>>, <<" ">>, NoteLine, DisabledSrc, ActiveDeb, ShortLine, BogusComment}

\* A file of the given lines, each ended by a newline.
RECURSIVE TextOf(_)
TextOf(ls) == IF ls = <<>> THEN <<>> ELSE Head(ls) \o <<"\n">> \o TextOf(Tail(ls))

FileTexts == {TextOf(ls) : ls \in SeqsUpTo(FileLinePool, MaxFileLines)}

ParseOptionsPool ==
    [skip_comments : BOOLEAN, skip_disabled : BOOLEAN]

LineFileInit ==
    /\ lfile \in FileTexts
    /\ lopts \in ParseOptionsPool
    /\ lres = NoResult
    /\ lpc = "start"
    /\ InstallIdle
    /\ OptionsIdle
    /\ ParseIdle
    /\ EncodeIdle
    /\ ConvertIdle
    /\ FinalIdle

\* parse_line_file(&mut source_stream, &parse_options)
ParseFile ==
    /\ lpc = "start"
    /\ lres' = ParseLineFile(lfile, lopts)
    /\ lpc' = "parsed"
    /\ UNCHANGED <<lfile, lopts, installVars, optionVars, parseVars, encodeVars, convertVars, finalVars>>

LineFileNext == ParseFile

SpecLineFile == LineFileInit /\ [][LineFileNext]_vars

\* ---------------------------------------------------------------------------
\* parse_custom_option applied to `--option` arguments.

OptionKeyPool ==
    {<<"lang">>, <<"Lang">>, <<"signed-by">>, <<"Types">>, <<"bogus">>, <<>>, <<"lang", " ">>}

OptionTextPool ==
    {<<"v">>, <<"x", ",", "y">>, <<",">>, <<"x", ",">>, <<"yes">>, <<>>, <<"a", "=", "b">>}

\* `key=value` arguments, bare or with blanks around them, and arguments with
\* no `=`.
CustomOptionPool ==
    {lead \o k \o <<"=">> \o v \o lead :
        lead \in {<<>>, <<" ">>}, k \in OptionKeyPool, v \in OptionTextPool}
    \cup {<<"bogus">>, <<>>, <<" ", "k", ",", "v", " ">>}

CustomInit ==
    /\ qoption \in CustomOptionPool
    /\ qforce \in BOOLEAN
    /\ qres = NoResult
    /\ qpc = "start"
    /\ InstallIdle
    /\ OptionsIdle
    /\ ParseIdle
    /\ EncodeIdle
    /\ LineFileIdle
    /\ ConvertIdle
    /\ NameIdle
    /\ PipeIdle

\* parse_custom_option(option, args.force_literal_options), as called for each
\* `--option` by SourceEntry::from_new_args.
ParseOption ==
    /\ qpc = "start"
    /\ qres' = ParseCustomOption(qoption, qforce)
    /\ qpc' = "parsed"
    /\ UNCHANGED <<qoption, qforce, installVars, optionVars, parseVars,
                   encodeVars, lineFileVars, convertVars, nameVars, pipeVars>>

CustomNext == ParseOption

SpecCustomOption == CustomInit /\ [][CustomNext]_vars

\* ---------------------------------------------------------------------------
\* convert.rs: converting a one-line-style file to a deb822 file.

\* BackupMode::from_args: --backup wins, otherwise --backup-to, otherwise none.
BackupMode(args) ==
    IF args.backup THEN [some |-> TRUE, kind |-> "Backup", path |-> <<>>]
    ELSE IF args.backup_to # <<>>
    THEN [some |-> TRUE, kind |-> "BackupTo", path |-> args.backup_to]
    ELSE [some |-> FALSE, kind |-> "None", path |-> <<>>]

BACKUP_SUFFIX == <<".bak">>

NoBackupPlan == [some |-> FALSE, original |-> <<>>, backup |-> <<>>]

\* EntryConverter::backup_plan: none when the input is stdin or no backup was
\* asked for; otherwise the original's path and the path of its copy.
BackupPlan(args) ==
    IF args.in_stdio \/ ~BackupMode(args).some THEN NoBackupPlan
    ELSE IF BackupMode(args).kind = "Backup"
    THEN [some |-> TRUE, original |-> InPath, backup |-> InPath \o BACKUP_SUFFIX]
    ELSE [some |-> TRUE, original |-> InPath, backup |-> BackupMode(args).path]

\* EntryConverter::remove_original with the match on the Installed path
\* dropped: every input file is removed.
RemovesOriginalAnyFile(args) == ~args.in_stdio

\* EntryConverter::remove_original, the match: only an input file that lives in
\* the apt sources directory (the by-name form) is removed.
RemovesOriginal(args) == args.by_name /\ ~args.in_stdio

\* EntryConverter::open_backup_file with create(true) in place of
\* create_new(true).
OpenBackupFileTrusting(f, path, io) ==
    IF io = "denied" THEN [res |-> Err("PermissionDenied", <<>>), file |-> f]
    ELSE IF io # "ok" THEN [res |-> Err("Io", <<>>), file |-> f]
    ELSE [res |-> Ok(<<>>), file |-> FileOf(<<>>)]

\* EntryConverter::open_backup_file on the path holding f: create_new fails
\* with AlreadyExists whenever the path exists.
OpenBackupFile(f, path, io) ==
    IF f.exists THEN [res |-> Err("ConvertBackupAlreadyExists", path), file |-> f]
    ELSE IF io = "denied" THEN [res |-> Err("PermissionDenied", <<>>), file |-> f]
    ELSE IF io # "ok" THEN [res |-> Err("Io", <<>>), file |-> f]
    ELSE [res |-> Ok(<<>>), file |-> FileOf(<<>>)]

\* EntryConverter::open_dest_file with create(true).truncate(true) in place of
\* create_new(true).
OpenDestFileTrusting(f, path, io) ==
    IF io = "denied" THEN [res |-> Err("PermissionDenied", <<>>), file |-> f]
    ELSE IF io # "ok" THEN [res |-> Err("Io", <<>>), file |-> f]
    ELSE [res |-> Ok(<<>>), file |-> FileOf(<<>>)]

\* EntryConverter::open_dest_file on the path holding f.
OpenDestFile(f, path, io) ==
    IF f.exists THEN [res |-> Err("ConvertOutFileAlreadyExists", path), file |-> f]
    ELSE IF io = "denied" THEN [res |-> Err("PermissionDenied", <<>>), file |-> f]
    ELSE IF io # "ok" THEN [res |-> Err("Io", <<>>), file |-> f]
    ELSE [res |-> Ok(<<>>), file |-> FileOf(<<>>)]

\* The turn of the loop with the test of entry_index left out: a newline is
\* written after every stanza, the last of the file too.
WriteItemTrailing(content, item, entry_index, len) ==
    IF item.kind = "Entry"
    THEN LET iter == CHOOSE it \in IterOrders(DOMAIN item.options) : TRUE
         IN  InstallTo(content, "Append", item.options, iter) \o <<"\n">>
    ELSE content \o <<"#", " ">> \o item.text \o <<"\n">>

\* One turn of the loop of EntryConverter::convert: the output after the item
\* at entry_index of len was written.  A stanza is appended as `add` appends
\* one, and is followed by a newline unless it is the last item; a comment is
\* written as `# text`.  OptionMap::options sorts, so the order in which the
\* map is iterated is immaterial and any one is taken.
WriteItem(content, item, entry_index, len) ==
    IF item.kind = "Entry"
    THEN LET iter == CHOOSE it \in IterOrders(DOMAIN item.options) : TRUE
             installed == InstallTo(content, "Append", item.options, iter)
         IN  IF entry_index < len - 1 THEN installed \o <<"\n">> ELSE installed
    ELSE content \o <<"#", " ">> \o item.text \o <<"\n">>

\* The loop of EntryConverter::convert reversed: the items are written from
\* the last to the first.
RECURSIVE WriteItemsReversed(_, _, _)
WriteItemsReversed(content, entries, n) ==
    IF n = 0 THEN content
    ELSE WriteItem(WriteItemsReversed(content, entries, n - 1),
                   entries[Len(entries) - n + 1], n - 1, Len(entries))

\* The loop of EntryConverter::convert: the output after the first n items
\* were written, in the order of `entries`, onto content.
RECURSIVE WriteItems(_, _, _)
WriteItems(content, entries, n) ==
    IF n = 0 THEN content
    ELSE WriteItem(WriteItems(content, entries, n - 1), entries[n], n - 1, Len(entries))

\* ConvertCommand::report: nothing when the output is stdout; otherwise a line
\* for the backup, one for the file created and one for the file removed.
ConvertReport(args) ==
    IF args.out_stdio THEN NoReport
    ELSE ReportOf(
             (IF BackupPlan(args).some
              THEN << <<"Backed up original source file", BackupPlan(args).backup>> >>
              ELSE <<>>)
             \o << <<"Created new source file", OutPath>> >>
             \o (IF RemovesOriginal(args)
                 THEN << <<"Removed existing source file", InPath>> >>
                 ELSE <<>>))

\* ---------------------------------------------------------------------------
\* The conversion as a state machine: the arguments, the files and the steps
\* of ConvertCommand::new and EntryConverter::convert.

\* `debctl convert` by name (with no backup, --backup or --backup-to) or with
\* --in/--out, each a path or `-`; cli.rs makes the two forms exclusive.
ConvertArgsPool ==
    {[by_name |-> TRUE, in_stdio |-> FALSE, out_stdio |-> FALSE,
      backup |-> b, backup_to |-> bt,
      skip_comments |-> sc, skip_disabled |-> sd, dry_run |-> dr] :
        b \in {FALSE}, bt \in {<<>>, OtherPath, OutPath},
        sc \in BOOLEAN, sd \in BOOLEAN, dr \in BOOLEAN}
    \cup
    {[by_name |-> TRUE, in_stdio |-> FALSE, out_stdio |-> FALSE,
      backup |-> TRUE, backup_to |-> <<>>,
      skip_comments |-> sc, skip_disabled |-> sd, dry_run |-> dr] :
        sc \in BOOLEAN, sd \in BOOLEAN, dr \in BOOLEAN}
    \cup
    {[by_name |-> FALSE, in_stdio |-> i, out_stdio |-> o,
      backup |-> FALSE, backup_to |-> <<>>,
      skip_comments |-> sc, skip_disabled |-> sd, dry_run |-> dr] :
        i \in BOOLEAN, o \in BOOLEAN,
        sc \in BOOLEAN, sd \in BOOLEAN, dr \in BOOLEAN}

\* One-line-style files to convert.
ConvertInputs ==
    {<<>>,
     TextOf(<<NoteLine, DisabledSrc, ActiveDeb>>),
     TextOf(<<ActiveDeb, DisabledSrc, NoteLine>>),
     TextOf(<<NoteLine, NoteLine, ActiveDeb>>),
     TextOf(<<ActiveDeb, NoteLine, DisabledSrc>>),
     TextOf(<<ActiveDeb, ShortLine>>)}

\* What a file left by an earlier run holds.
StaleData == <<"old", "\n">>

\* The files before the command runs: the input absent or one of the inputs,
\* the destination absent or stale, the two backup paths both absent or both
\* stale.
ConvertFileSystems ==
    {[p \in FsPaths |->
        IF p = InPath THEN i
        ELSE IF p = OutPath THEN o
        ELSE b] :
        i \in {NoFile} \cup {FileOf(d) : d \in ConvertInputs},
        o \in {NoFile, FileOf(StaleData)},
        b \in {NoFile, FileOf(StaleData)}}

ConvertInit ==
    /\ cargs \in ConvertArgsPool
    /\ cfs \in ConvertFileSystems
    /\ cfs0 = cfs
    /\ cstdin \in IF cargs.in_stdio THEN ConvertInputs ELSE {<<>>}
    /\ centries = <<>>
    /\ cpc = "start"
    /\ cres = NoResult
    /\ ctemp = <<>>
    /\ cstdout = <<>>
    /\ creport = NoReport
    /\ InstallIdle
    /\ OptionsIdle
    /\ ParseIdle
    /\ EncodeIdle
    /\ LineFileIdle
    /\ FinalIdle

ConvertFrame == <<installVars, optionVars, parseVars, encodeVars, lineFileVars, finalVars>>

\* EntryConverter::from_args, File::open of the input with the NotFound arm
\* dropped: a missing file is one more I/O error.
OpenInFileGeneric(f, path, io) ==
    IF ~f.exists \/ io # "ok" THEN Err("Io", <<>>) ELSE Ok(f.data)

\* EntryConverter::from_args, File::open of the input file f at path: a
\* missing file is ConvertInFileNotFound with the path, any other failure is
\* passed on, and on success the bytes are there to be read.
OpenInFile(f, path, io) ==
    IF ~f.exists THEN Err("ConvertInFileNotFound", path)
    ELSE IF io # "ok" THEN Err("Io", <<>>)
    ELSE Ok(f.data)

\* EntryConverter::from_args, called by ConvertCommand::new: open the input,
\* parse it, keep the items.  An error here ends the command before convert is
\* called ("rejected"); an error of convert itself is "failed".
FromArgs(io) ==
    /\ cpc = "start"
    /\ LET source_stream == IF cargs.in_stdio THEN Ok(cstdin)
                            ELSE OpenInFile(cfs[InPath], InPath, io)
       IN  IF ~source_stream.ok
           THEN /\ cres' = source_stream
                /\ cpc' = "rejected"
                /\ UNCHANGED centries
           ELSE \E parsed \in {ParseLineFile(source_stream.val,
                                    [skip_comments |-> cargs.skip_comments,
                                     skip_disabled |-> cargs.skip_disabled])} :
                    IF ~parsed.ok
                    THEN /\ cres' = parsed
                         /\ cpc' = "rejected"
                         /\ UNCHANGED centries
                    ELSE /\ centries' = parsed.val
                         /\ cres' = NoResult
                         /\ cpc' = "constructed"
    /\ UNCHANGED <<cfs, cfs0, cargs, cstdin, ctemp, cstdout, creport, ConvertFrame>>

\* main.rs, run, with --dry-run: the command is built, Command::run is skipped
\* and the report is printed.
DryRun ==
    /\ cpc = "constructed"
    /\ ~RunsCommand(cargs.dry_run)
    /\ cpc' = "reported"
    /\ cres' = Ok(<<>>)
    /\ creport' = ConvertReport(cargs)
    /\ UNCHANGED <<cfs, cfs0, cargs, cstdin, centries, ctemp, cstdout, ConvertFrame>>

\* backup_original with the io::copy left out: the backup file stays as it
\* was created.
BackupCopyNothing(original) == FileOf(<<>>)

\* backup_original, io::copy(&mut source_file, &mut backup_file): the backup
\* file holds every byte of the original.
BackupCopy(original) == FileOf(original.data)

\* EntryConverter::backup_original, the first step of convert: create the
\* backup file, then copy the original into it.
BackupOriginal(io, copy) ==
    /\ cpc = "constructed"
    /\ RunsCommand(cargs.dry_run)
    /\ LET bp == BackupPlan(cargs)
       IN  IF ~bp.some
           THEN /\ cpc' = "backed"
                /\ UNCHANGED <<cfs, cres>>
           ELSE LET opened == OpenBackupFile(cfs[bp.backup], bp.backup, io)
                IN  IF ~opened.res.ok
                    THEN /\ cfs' = [cfs EXCEPT ![bp.backup] = opened.file]
                         /\ cres' = opened.res
                         /\ cpc' = "failed"
                    ELSE IF copy # "ok"
                    THEN /\ cfs' = [cfs EXCEPT ![bp.backup] = opened.file]
                         /\ cres' = Err("Io", <<>>)
                         /\ cpc' = "failed"
                    ELSE /\ cfs' = [cfs EXCEPT ![bp.backup] = BackupCopy(cfs[bp.original])]
                         /\ cpc' = "backed"
                         /\ UNCHANGED cres
    /\ UNCHANGED <<cfs0, cargs, cstdin, centries, ctemp, cstdout, creport, ConvertFrame>>

\* convert, opening the output: the destination file, created new, or a
\* temporary file when the output is stdout.
OpenDest(io) ==
    /\ cpc = "backed"
    /\ IF cargs.out_stdio
       THEN IF io = "ok"
            THEN /\ cpc' = "opened"
                 /\ UNCHANGED <<cfs, cres>>
            ELSE /\ cpc' = "failed"
                 /\ cres' = Err("Io", <<>>)
                 /\ UNCHANGED cfs
       ELSE LET opened == OpenDestFile(cfs[OutPath], OutPath, io)
            IN  /\ cfs' = [cfs EXCEPT ![OutPath] = opened.file]
                /\ IF opened.res.ok
                   THEN cpc' = "opened" /\ UNCHANGED cres
                   ELSE cpc' = "failed" /\ cres' = opened.res
    /\ UNCHANGED <<cfs0, cargs, cstdin, centries, ctemp, cstdout, creport, ConvertFrame>>

\* convert, the loop over the items: all of them are written, or a write
\* fails after the first n of them.
WriteOutput(io, n) ==
    /\ cpc = "opened"
    /\ n \in 0..Len(centries)
    /\ IF io = "ok" THEN n = Len(centries) ELSE n < Len(centries)
    /\ LET written == WriteItems(<<>>, centries, n)
       IN  IF cargs.out_stdio
           THEN ctemp' = written /\ UNCHANGED cfs
           ELSE cfs' = [cfs EXCEPT ![OutPath] = FileOf(written)] /\ UNCHANGED ctemp
    /\ IF io = "ok"
       THEN cpc' = "written" /\ UNCHANGED cres
       ELSE cpc' = "failed" /\ cres' = Err("Io", <<>>)
    /\ UNCHANGED <<cfs0, cargs, cstdin, centries, cstdout, creport, ConvertFrame>>

\* convert, after the loop: with stdout as the output the temporary file is
\* rewound and copied to it.
CopyToStdout(io) ==
    /\ cpc = "written"
    /\ IF ~cargs.out_stdio
       THEN cpc' = "copied" /\ UNCHANGED <<cstdout, cres>>
       ELSE IF io = "ok"
       THEN cpc' = "copied" /\ cstdout' = ctemp /\ UNCHANGED cres
       ELSE cpc' = "failed" /\ cres' = Err("Io", <<>>) /\ UNCHANGED cstdout
    /\ UNCHANGED <<cfs, cfs0, cargs, cstdin, centries, ctemp, creport, ConvertFrame>>

\* EntryConverter::remove_original, the last step of convert; the command
\* then prints its report.
RemoveOriginal(io) ==
    /\ cpc = "copied"
    /\ IF ~RemovesOriginal(cargs)
       THEN /\ cpc' = "done"
            /\ cres' = Ok(<<>>)
            /\ creport' = ConvertReport(cargs)
            /\ UNCHANGED cfs
       ELSE IF io = "ok"
       THEN /\ cfs' = [cfs EXCEPT ![InPath] = NoFile]
            /\ cpc' = "done"
            /\ cres' = Ok(<<>>)
            /\ creport' = ConvertReport(cargs)
       ELSE /\ cpc' = "failed"
            /\ cres' = IF io = "denied" THEN Err("PermissionDenied", <<>>)
                       ELSE Err("Io", <<>>)
            /\ UNCHANGED <<cfs, creport>>
    /\ UNCHANGED <<cfs0, cargs, cstdin, centries, ctemp, cstdout, ConvertFrame>>

ConvertNext ==
    \/ \E io \in IoOutcome : FromArgs(io)
    \/ DryRun
    \/ \E io \in IoOutcome, copy \in IoOutcome : BackupOriginal(io, copy)
    \/ \E io \in IoOutcome : OpenDest(io)
    \/ \E io \in IoOutcome, n \in 0..Len(centries) : WriteOutput(io, n)
    \/ \E io \in IoOutcome : CopyToStdout(io)
    \/ \E io \in IoOutcome : RemoveOriginal(io)

SpecConvert == ConvertInit /\ [][ConvertNext]_vars

\* ---------------------------------------------------------------------------
\* Resolving option names (option.rs): the display name of a known option, in
\* some letter case, is given to KnownOptionName::from_str.

\* The display names in upper case.
UpperAtom(a) ==
    CASE a = "Types" -> "TYPES"
      [] a = "URIs" -> "URIS"
      [] a = "Suites" -> "SUITES"
      [] a = "Components" -> "COMPONENTS"
      [] a = "Enabled" -> "ENABLED"
      [] a = "Architectures" -> "ARCHITECTURES"
      [] a = "Languages" -> "LANGUAGES"
      [] a = "Targets" -> "TARGETS"
      [] a = "PDiffs" -> "PDIFFS"
      [] a = "By-Hash" -> "BY-HASH"
      [] a = "Allow-Insecure" -> "ALLOW-INSECURE"
      [] a = "Allow-Weak" -> "ALLOW-WEAK"
      [] a = "Allow-Downgrade-To-Insecure" -> "ALLOW-DOWNGRADE-TO-INSECURE"
      [] a = "Trusted" -> "TRUSTED"
      [] a = "Signed-By" -> "SIGNED-BY"
      [] a = "Check-Valid-Until" -> "CHECK-VALID-UNTIL"
      [] a = "Valid-Until-Min" -> "VALID-UNTIL-MIN"
      [] a = "Valid-Until-Max" -> "VALID-UNTIL-MAX"
      [] a = "X-Repolib-Name" -> "X-REPOLIB-NAME"
      [] OTHER -> a

LetterCases == {"display", "lower", "upper"}

\* A name in one of the letter cases.
InLetterCase(s, lc) ==
    CASE lc = "lower" -> ToLowercase(s)
      [] lc = "upper" -> [i \in 1..Len(s) |-> UpperAtom(s[i])]
      [] OTHER -> s

\* KnownOptionName::from_str as a result: the option, or InvalidOptionName
\* with the name as given.
KnownFromStrResult(s) ==
    IF KnownFromStr(s) = "" THEN Err("InvalidOptionName", s) ELSE Ok(KnownFromStr(s))

NameInit ==
    /\ nname \in KnownOptionName
    /\ ntext = <<>>
    /\ nres = NoResult
    /\ npc = "start"
    /\ InstallIdle
    /\ OptionsIdle
    /\ ParseIdle
    /\ EncodeIdle
    /\ LineFileIdle
    /\ ConvertIdle
    /\ CustomIdle
    /\ PipeIdle

NameFrame == <<installVars, optionVars, parseVars, encodeVars, lineFileVars,
               convertVars, customVars, pipeVars>>

\* KnownOptionName::to_deb822, the name then written in some letter case.
DisplayName(lc) ==
    /\ npc = "start"
    /\ ntext' = InLetterCase(KnownToDeb822(nname), lc)
    /\ npc' = "displayed"
    /\ UNCHANGED <<nname, nres, NameFrame>>

\* KnownOptionName::from_str on the name as written.
ResolveName ==
    /\ npc = "displayed"
    /\ nres' = KnownFromStrResult(ntext)
    /\ npc' = "resolved"
    /\ UNCHANGED <<nname, ntext, NameFrame>>

NameNext ==
    \/ \E lc \in LetterCases : DisplayName(lc)
    \/ ResolveName

SpecNames == NameInit /\ [][NameNext]_vars

\* ---------------------------------------------------------------------------
\* Piping a key through the external PGP tool (stdio.rs, pgp/gpg/key.rs):
\* GnupgKey::dearmor and GnupgKey::id spawn the tool with three pipes, start a
\* thread on its stdout and one on its stderr, write the key to its stdin,
\* wait for it and join the threads.  Bytes are counted, not told apart.

\* The statements of dearmor and of id after the early return, in order.
PipeSteps ==
    <<"spawn", "read_stdout", "read_stderr", "write_stdin", "wait",
      "join_stderr", "join_stdout", "done">>

StepIndex(steps, step) == CHOOSE i \in 1..Len(steps) : steps[i] = step

\* The statements with write_stdin moved before read_stdout and read_stderr:
\* the key is written before any thread drains the child's output.
StepAfterWritingFirst(step) ==
    LET steps == <<"spawn", "write_stdin", "read_stdout", "read_stderr", "wait",
                   "join_stderr", "join_stdout", "done">>
    IN  steps[StepIndex(steps, step) + 1]

\* The statement that follows `step` in dearmor and in id.
StepAfter(step) == PipeSteps[StepIndex(PipeSteps, step) + 1]

\* The keys: armored with no id known, or binary with its id known, of every
\* length up to MaxPayload.
GnupgKeyPool ==
    {[encoding |-> k[1], id |-> k[2], len |-> n] :
        k \in {<<"Armored", FALSE>>, <<"Binary", TRUE>>}, n \in 0..MaxPayload}

\* The external tool: it writes `out` bytes to its stdout and `err` bytes to its
\* stderr, either before it reads its stdin or after it has read it to the end.
ChildPool ==
    {[state |-> "none", order |-> o, out |-> out, err |-> err,
      eof |-> FALSE, status |-> "none"] :
        o \in {"read_first", "write_first"}, out \in {0, MaxOutput}, err \in {0, MaxOutput}}

PipeInit ==
    /\ gop \in {"dearmor", "id"}
    /\ gkey \in GnupgKeyPool
    /\ gpc = "start"
    /\ gleft = gkey.len
    /\ gpipes \in {[NoPipes EXCEPT !.cap = c] : c \in 1..MaxPipe}
    /\ gchild \in ChildPool
    /\ gthreads = NoThreads
    /\ gres = NoResult
    /\ InstallIdle
    /\ OptionsIdle
    /\ ParseIdle
    /\ EncodeIdle
    /\ LineFileIdle
    /\ ConvertIdle
    /\ CustomIdle
    /\ NameIdle

PipeFrame == <<installVars, optionVars, parseVars, encodeVars, lineFileVars,
               convertVars, customVars, nameVars>>

\* dearmor returns the key as it is when it is binary already; id returns the
\* id it knows.  Otherwise the tool is needed.
Begin ==
    /\ gpc = "start"
    /\ IF \/ gop = "dearmor" /\ gkey.encoding = "Binary"
          \/ gop = "id" /\ gkey.id
       THEN gpc' = "done" /\ gres' = Ok(gkey.len)
       ELSE gpc' = "spawn" /\ UNCHANGED gres
    /\ UNCHANGED <<gop, gkey, gleft, gpipes, gchild, gthreads, PipeFrame>>

\* Command::spawn with the three streams piped.
Spawn(io) ==
    /\ gpc = "spawn"
    /\ IF io = "ok"
       THEN /\ gchild' = [gchild EXCEPT !.state = "running"]
            /\ gpipes' = [gpipes EXCEPT !.stdin_open = TRUE]
            /\ gpc' = StepAfter("spawn")
            /\ UNCHANGED gres
       ELSE /\ gpc' = "failed"
            /\ gres' = Err("GnupgNotFound", <<>>)
            /\ UNCHANGED <<gchild, gpipes>>
    /\ UNCHANGED <<gop, gkey, gleft, gthreads, PipeFrame>>

\* read_stdout: a thread is started that copies the child's stdout to a buffer.
ReadStdout ==
    /\ gpc = "read_stdout"
    /\ gthreads' = [gthreads EXCEPT !.stdout = "reading"]
    /\ gpc' = StepAfter("read_stdout")
    /\ UNCHANGED <<gop, gkey, gleft, gpipes, gchild, gres, PipeFrame>>

\* read_stderr: a thread is started that reads the child's stderr to its end.
ReadStderr ==
    /\ gpc = "read_stderr"
    /\ gthreads' = [gthreads EXCEPT !.stderr = "reading"]
    /\ gpc' = StepAfter("read_stderr")
    /\ UNCHANGED <<gop, gkey, gleft, gpipes, gchild, gres, PipeFrame>>

\* write_stdin, one write of io::copy: a byte goes into the pipe when there is
\* room (the write blocks otherwise); it fails when the child has exited, and
\* the error is returned from dearmor or id at once, stdin being dropped.
WriteStdin ==
    /\ gpc = "write_stdin"
    /\ gleft > 0
    /\ IF gchild.state = "exited"
       THEN /\ gpc' = "failed"
            /\ gres' = Err("Io", <<>>)
            /\ gpipes' = [gpipes EXCEPT !.stdin_open = FALSE]
            /\ UNCHANGED gleft
       ELSE /\ gpipes.stdin < gpipes.cap
            /\ gpipes' = [gpipes EXCEPT !.stdin = @ + 1]
            /\ gleft' = gleft - 1
            /\ UNCHANGED <<gpc, gres>>
    /\ UNCHANGED <<gop, gkey, gchild, gthreads, PipeFrame>>

\* write_stdin, its end: everything is written and `stdin` is dropped, which
\* closes the stream.
CloseStdin ==
    /\ gpc = "write_stdin"
    /\ gleft = 0
    /\ gpipes' = [gpipes EXCEPT !.stdin_open = FALSE]
    /\ gpc' = StepAfter("write_stdin")
    /\ UNCHANGED <<gop, gkey, gleft, gchild, gthreads, gres, PipeFrame>>

\* wait, first statement: process.wait() returns when the child has exited.
WaitChild ==
    /\ gpc = "wait"
    /\ gchild.state = "exited"
    /\ gpc' = StepAfter("wait")
    /\ UNCHANGED <<gop, gkey, gleft, gpipes, gchild, gthreads, gres, PipeFrame>>

\* wait, the rest: the stderr thread is joined, and the child's failure is
\* returned with what it wrote to stderr.
JoinStderr ==
    /\ gpc = "join_stderr"
    /\ gthreads.stderr = "finished"
    /\ IF gchild.status = "success"
       THEN gpc' = StepAfter("join_stderr") /\ UNCHANGED gres
       ELSE gpc' = "failed" /\ gres' = Err("Tool", <<>>)
    /\ UNCHANGED <<gop, gkey, gleft, gpipes, gchild, gthreads, PipeFrame>>

\* stdout_handle.join(): the bytes the stdout thread collected are the result
\* (what id makes of them is not part of the piping).
JoinStdout ==
    /\ gpc = "join_stdout"
    /\ gthreads.stdout = "finished"
    /\ gpc' = StepAfter("join_stdout")
    /\ gres' = Ok(gthreads.outn)
    /\ UNCHANGED <<gop, gkey, gleft, gpipes, gchild, gthreads, PipeFrame>>

\* The stdout thread, one read of io::copy: a byte is taken from the pipe.
StdoutRead ==
    /\ gthreads.stdout = "reading"
    /\ gpipes.stdout > 0
    /\ gpipes' = [gpipes EXCEPT !.stdout = @ - 1]
    /\ gthreads' = [gthreads EXCEPT !.outn = @ + 1]
    /\ UNCHANGED <<gop, gkey, gpc, gleft, gchild, gres, PipeFrame>>

\* The stdout thread reads end of file: the pipe is empty and the child, which
\* held its write end, has exited.
StdoutEof ==
    /\ gthreads.stdout = "reading"
    /\ gpipes.stdout = 0
    /\ gchild.state = "exited"
    /\ gthreads' = [gthreads EXCEPT !.stdout = "finished"]
    /\ UNCHANGED <<gop, gkey, gpc, gleft, gpipes, gchild, gres, PipeFrame>>

\* The stderr thread, one read of read_to_string.
StderrRead ==
    /\ gthreads.stderr = "reading"
    /\ gpipes.stderr > 0
    /\ gpipes' = [gpipes EXCEPT !.stderr = @ - 1]
    /\ gthreads' = [gthreads EXCEPT !.errn = @ + 1]
    /\ UNCHANGED <<gop, gkey, gpc, gleft, gchild, gres, PipeFrame>>

\* The stderr thread reads end of file.
StderrEof ==
    /\ gthreads.stderr = "reading"
    /\ gpipes.stderr = 0
    /\ gchild.state = "exited"
    /\ gthreads' = [gthreads EXCEPT !.stderr = "finished"]
    /\ UNCHANGED <<gop, gkey, gpc, gleft, gpipes, gchild, gres, PipeFrame>>

\* The child reads while it has not seen the end of its input, and, when it
\* writes first, only once its output is written; it writes before it reads
\* or after, as its order says.
ChildReads == ~gchild.eof /\ (gchild.order = "read_first" \/ (gchild.out = 0 /\ gchild.err = 0))
ChildWrites == gchild.order = "write_first" \/ gchild.eof

\* The child reads a byte of its stdin.
ChildRead ==
    /\ gchild.state = "running"
    /\ ChildReads
    /\ gpipes.stdin > 0
    /\ gpipes' = [gpipes EXCEPT !.stdin = @ - 1]
    /\ UNCHANGED <<gop, gkey, gpc, gleft, gchild, gthreads, gres, PipeFrame>>

\* The child reads the end of its stdin: the pipe is empty and its write end
\* is closed.
ChildEof ==
    /\ gchild.state = "running"
    /\ ChildReads
    /\ gpipes.stdin = 0
    /\ ~gpipes.stdin_open
    /\ gchild' = [gchild EXCEPT !.eof = TRUE]
    /\ UNCHANGED <<gop, gkey, gpc, gleft, gpipes, gthreads, gres, PipeFrame>>

\* The child writes a byte to its stdout when the pipe has room; the write
\* blocks otherwise.
ChildWriteStdout ==
    /\ gchild.state = "running"
    /\ ChildWrites
    /\ gchild.out > 0
    /\ gpipes.stdout < gpipes.cap
    /\ gpipes' = [gpipes EXCEPT !.stdout = @ + 1]
    /\ gchild' = [gchild EXCEPT !.out = @ - 1]
    /\ UNCHANGED <<gop, gkey, gpc, gleft, gthreads, gres, PipeFrame>>

\* The child writes a byte to its stderr, after its stdout.
ChildWriteStderr ==
    /\ gchild.state = "running"
    /\ ChildWrites
    /\ gchild.out = 0
    /\ gchild.err > 0
    /\ gpipes.stderr < gpipes.cap
    /\ gpipes' = [gpipes EXCEPT !.stderr = @ + 1]
    /\ gchild' = [gchild EXCEPT !.err = @ - 1]
    /\ UNCHANGED <<gop, gkey, gpc, gleft, gthreads, gres, PipeFrame>>

\* The child exits, having read its input to the end and written its output.
ChildExit(status) ==
    /\ gchild.state = "running"
    /\ gchild.eof
    /\ gchild.out = 0 /\ gchild.err = 0
    /\ gchild' = [gchild EXCEPT !.state = "exited", !.status = status]
    /\ UNCHANGED <<gop, gkey, gpc, gleft, gpipes, gthreads, gres, PipeFrame>>

\* The child gives up at any moment, with a failure, whatever is left to read
\* or to write.
ChildAbort ==
    /\ gchild.state = "running"
    /\ gchild' = [gchild EXCEPT !.state = "exited", !.status = "failure"]
    /\ UNCHANGED <<gop, gkey, gpc, gleft, gpipes, gthreads, gres, PipeFrame>>

\* A step of the calling thread, of a reader thread, or of the child going
\* about its work.
PipeProgress ==
    \/ Begin
    \/ \E io \in {"ok", "error"} : Spawn(io)
    \/ ReadStdout
    \/ ReadStderr
    \/ WriteStdin
    \/ CloseStdin
    \/ WaitChild
    \/ JoinStderr
    \/ JoinStdout
    \/ StdoutRead
    \/ StdoutEof
    \/ StderrRead
    \/ StderrEof
    \/ ChildRead
    \/ ChildEof
    \/ ChildWriteStdout
    \/ ChildWriteStderr
    \/ \E status \in {"success", "failure"} : ChildExit(status)

PipeNext == PipeProgress \/ ChildAbort

SpecPipe == PipeInit /\ [][PipeNext]_vars

\* The calling thread and the two reader threads are scheduled, and the child
\* runs: it reads what is there to read, writes when there is room and exits
\* when it is through.  Nothing makes it give up.
PipeFairness ==
    /\ WF_vars(Begin)
    /\ WF_vars(\E io \in {"ok", "error"} : Spawn(io))
    /\ WF_vars(ReadStdout)
    /\ WF_vars(ReadStderr)
    /\ WF_vars(WriteStdin)
    /\ WF_vars(CloseStdin)
    /\ WF_vars(WaitChild)
    /\ WF_vars(JoinStderr)
    /\ WF_vars(JoinStdout)
    /\ WF_vars(StdoutRead)
    /\ WF_vars(StdoutEof)
    /\ WF_vars(StderrRead)
    /\ WF_vars(StderrEof)
    /\ WF_vars(ChildRead)
    /\ WF_vars(ChildEof)
    /\ WF_vars(ChildWriteStdout)
    /\ WF_vars(ChildWriteStderr)
    /\ WF_vars(\E status \in {"success", "failure"} : ChildExit(status))

SpecPipeLive == SpecPipe /\ PipeFairness

\* ---------------------------------------------------------------------------
\* main.rs, run: the command line names one command -- new or add (the
\* installer) or convert -- which is built, run unless --dry-run, and reported.

CommandsInit == InstallInit \/ ConvertInit

CommandsNext == InstallNext \/ ConvertNext

SpecCommands == CommandsInit /\ [][CommandsNext]_vars


-----------------------------------------------------------------------------
(* The whole model: one of the parts runs, the others stay idle. *)

Init ==
    \/ OptionsInit \/ InstallInit \/ ParseInit \/ EncodeInit
    \/ LineFileInit \/ ConvertInit \/ CustomInit \/ NameInit \/ PipeInit

Next ==
    \/ OptionsNext \/ InstallNext \/ ParseNext \/ EncodeNext
    \/ LineFileNext \/ ConvertNext \/ CustomNext \/ NameNext \/ PipeNext

Spec == Init /\ [][Next]_vars

-----------------------------------------------------------------------------
(* Properties of the option map, checked under SpecOptions. *)

\* The map built by inserting the pairs of m, one OptionMap::insert per name, in
\* the order ord.
RECURSIVE BuildFrom(_, _)
BuildFrom(m, ord) ==
    IF ord = <<>> THEN NewMap
    ELSE Insert(BuildFrom(m, SubSeq(ord, 1, Len(ord) - 1)), ord[Len(ord)], m[ord[Len(ord)]])

\* o lists every pair of m once, Known names first in the order of the
\* enumeration, then Custom names in ascending order of their spelling.
IsCanonical(m, o) ==
    /\ Len(o) = Cardinality(DOMAIN m)
    /\ {o[i][1] : i \in 1..Len(o)} = DOMAIN m
    /\ \A i \in 1..Len(o) : o[i][2] = m[o[i][1]]
    /\ \A i, j \in 1..Len(o) :
          i < j =>
            \/ o[i][1].known /\ ~o[j][1].known
            \/ o[i][1].known /\ o[j][1].known /\ KnownIndex(o[i][1].k) < KnownIndex(o[j][1].k)
            \/ ~o[i][1].known /\ ~o[j][1].known /\ StrLess(o[i][1].c, o[j][1].c)

CustomNamesOf(m) == {n \in DOMAIN m : ~n.known}
KnownNamesOf(m)  == {n \in DOMAIN m : n.known}

\* C6: options() returns the pairs of the map in the canonical order (Known names
\* in enumeration order, then Custom names sorted by spelling) whatever order the
\* hash map iterates in, and maps built by inserting the same pairs in any two
\* orders return the same sequence.
C6_OptionsCanonicalOrder ==
    /\ \A it \in IterOrders(DOMAIN map) : IsCanonical(map, Options(map, it))
    /\ \E ref \in {BuildFrom(map, ord) : ord \in IterOrders(DOMAIN map)} :
          /\ \A ord \in IterOrders(DOMAIN map) : BuildFrom(map, ord) = ref
          /\ \E first \in {Options(ref, it) : it \in IterOrders(DOMAIN ref)} :
                /\ IsCanonical(ref, first)
                /\ \A it \in IterOrders(DOMAIN ref) : Options(ref, it) = first

\* C6 witness: a map holding two Known and two Custom options, the last of them
\* added by insert.
C6_Witness ==
    /\ olast.op = "insert"
    /\ map # olast.before
    /\ Cardinality(CustomNamesOf(map)) >= 2
    /\ Cardinality(KnownNamesOf(map)) >= 2

\* C7 (as claimed): no option map the program builds holds an empty value.
C7_NoEmptyValueInMap == \A n \in DOMAIN map : ~IsEmpty(map[n])

\* C8: insert_key on a map that already holds Signed-By fails with
\* ConflictingKeyLocations and leaves the map as it was.
C8_InsertKeyConflictKeepsMap ==
    (olast.op = "insert_key" /\ MapContains(olast.before, Known("SignedBy")))
       => /\ ores = Err("ConflictingKeyLocations", <<>>)
          /\ map = olast.before

\* C8 witness: insert_key was called on a map holding Signed-By, and was refused.
C8_Witness ==
    /\ olast.op = "insert_key"
    /\ MapContains(olast.before, Known("SignedBy"))
    /\ ~ores.ok

-----------------------------------------------------------------------------
(* Properties of the install state machine, checked under SpecInstall. *)

IsBlankLine(l) == Trim(l) = <<>>

\* The stanzas of a deb822 text: the maximal runs of lines that are not blank.
RECURSIVE StanzaRuns(_, _)
StanzaRuns(ls, inStanza) ==
    IF ls = <<>> THEN 0
    ELSE IF IsBlankLine(Head(ls)) THEN StanzaRuns(Tail(ls), FALSE)
    ELSE (IF inStanza THEN 0 ELSE 1) + StanzaRuns(Tail(ls), TRUE)

StanzaCount(text) == StanzaRuns(Lines(text), FALSE)

\* The number of blank lines at the end of a sequence of lines.
RECURSIVE TrailingBlank(_)
TrailingBlank(ls) ==
    IF ls = <<>> THEN 0
    ELSE IF IsBlankLine(ls[Len(ls)]) THEN 1 + TrailingBlank(SubSeq(ls, 1, Len(ls) - 1))
    ELSE 0

\* The text head ends a line, so that what is written after it starts a line.
EndsLine(head) == head = <<>> \/ head[Len(head)] = "\n"

\* C1: install under Fail on a path that exists returns NewSourceFileAlreadyExists
\* with that path, and the file is the same afterwards.
C1_FailOnExistingKeepsFile ==
    (ipc = "done" /\ action = "Fail" /\ atOpen.exists)
       => /\ ires = Err("NewSourceFileAlreadyExists", TargetPath)
          /\ file = atOpen

\* C1 witness: install was called under Fail on an existing file with content,
\* no other process involved, and has returned.
C1_Witness ==
    /\ ipc = "done"
    /\ action = "Fail"
    /\ atOpen.exists
    /\ atOpen.data # <<>>
    /\ ~raced

\* C2 (as claimed): after Append on an existing file the file is the previous
\* content followed by the new stanza, and when the previous content holds a
\* stanza the new one starts a line and exactly one blank line precedes it.
C2_AppendSeparatesByOneBlankLine ==
    (ipc = "done" /\ action = "Append" /\ ires.ok /\ atOpen.exists)
       => \E iter \in IterOrders(DOMAIN entry) :
             LET stanza == WriteOptions(entry, iter)
                 head   == SubSeq(file.data, 1, Len(file.data) - Len(stanza))
             IN  /\ Len(file.data) >= Len(atOpen.data) + Len(stanza)
                 /\ SubSeq(file.data, 1, Len(atOpen.data)) = atOpen.data
                 /\ SubSeq(file.data, Len(head) + 1, Len(file.data)) = stanza
                 /\ StanzaCount(atOpen.data) > 0
                       => /\ EndsLine(head)
                          /\ TrailingBlank(Lines(head)) = 1

\* C3 (as claimed): after a successful Overwrite the file is the text written for
\* the entry and holds exactly one stanza.
C3_OverwriteLeavesOneStanza ==
    (ipc = "done" /\ action = "Overwrite" /\ ires.ok)
       => /\ \E iter \in IterOrders(DOMAIN entry) : file.data = WriteOptions(entry, iter)
          /\ StanzaCount(file.data) = 1

\* The transition table of the install plan: Create when the target does not
\* exist; Overwrite, Append or the already-exists error when it does.
PlanTable(exists, act) ==
    IF ~exists THEN Ok("Create")
    ELSE IF act = "Fail" THEN Err("NewSourceFileAlreadyExists", TargetPath)
    ELSE Ok(act)

\* C4 (as claimed): the plan computed from (exists, policy) is the one of the
\* transition table, in all six cases.
C4_PlanMatchesTable ==
    (ipc \in {"planned", "failed"} /\ ~raced) => plan = PlanTable(file.exists, action)

\* C5: under Fail the installer never opens, and never writes into, a file that
\* existed when it opened the path; when the plan was Create and another process
\* created the file before the open, install fails with
\* NewSourceFileAlreadyExists and the other process's file is as it was.
C5_FailNeverWritesExistingFile ==
    /\ (action = "Fail" /\ ipc = "opened") => ~atOpen.exists
    /\ (action = "Fail" /\ ipc = "done" /\ ires.ok) => ~atOpen.exists
    /\ (action = "Fail" /\ plan = Ok("Create") /\ raced /\ ipc \in {"opened", "done"})
          => /\ ipc = "done"
             /\ ires = Err("NewSourceFileAlreadyExists", TargetPath)
             /\ file = atOpen

\* C5 witness: the plan was Create, another process then created the file with
\* content, and install has returned.
C5_Witness ==
    /\ action = "Fail"
    /\ plan = Ok("Create")
    /\ raced
    /\ ipc = "done"
    /\ atOpen.exists
    /\ atOpen.data # <<>>


-----------------------------------------------------------------------------
(* Properties of the one-line parser. *)

\* The option names of the grammar's bracket list of a line, resolved.
BracketNames(e) ==
    { Known(KnownFromStr(GrammarLine(e).options[i].name)) :
        i \in 1..Len(GrammarLine(e).options) }

PositionalNames ==
    {Known("Types"), Known("Uris"), Known("Suites"), Known("Components")}

C10_PositionalFieldsFromTokens ==
    (ppc = "parsed" /\ pres.ok)
       => LET g == GrammarLine(line) IN
          /\ pres.val[Known("Types")] = ValueFromStr(g.type)
          /\ pres.val[Known("Uris")] = ValueFromStr(g.params[1])
          /\ pres.val[Known("Suites")] = ValueFromStr(g.params[2])
          /\ pres.val[Known("Components")]
                = ValueFromVec(SubSeq(g.params, 3, Len(g.params)))

\* What a line looks like, read off its atoms without the grammar: its type
\* token, whether a bracket is opened and closed, the tokens after the type and
\* the bracket list, and the names written before an `=` inside the brackets.
TypeTokenOf(e) == IF TrimStart(e) = <<>> THEN "" ELSE Head(TrimStart(e))

BracketUnclosed(e) == Contains(e, "[") /\ ~Contains(e, "]")

PositionalTokens(e) ==
    IF Contains(e, "]") THEN Words(SubSeq(e, IndexFrom(e, "]", 1) + 1, Len(e)))
    ELSE IF Contains(e, "[") THEN <<>>
    ELSE Words(Tail(TrimStart(e)))

WrittenOptionNames(e) ==
    { <<e[i - 1]>> : i \in {j \in 2..Len(e) : e[j] = "=" /\ j < IndexFrom(e, "]", 1)} }

IsMalformedLine(e) ==
    \/ TypeTokenOf(e) \notin SourceTypes
    \/ BracketUnclosed(e)
    \/ Len(PositionalTokens(e)) < 3
    \/ \E n \in WrittenOptionNames(e) : KnownFromStr(n) = ""

\* C11: a line whose type token is neither deb nor deb-src, that has fewer than
\* three positional tokens, whose bracket list is not closed or that names an
\* unknown option in its bracket list is refused with MalformedOneLineEntry and a
\* reason, and no map parse_line_entry returns holds a Custom name.
C11_MalformedLineIsRefused ==
    /\ (ppc = "parsed" /\ IsMalformedLine(line))
          => /\ ~pres.ok
             /\ pres.err = "MalformedOneLineEntry"
             /\ pres.arg # <<>>
    /\ (ppc = "parsed" /\ pres.ok) => \A n \in DOMAIN pres.val : n.known

\* C11 witness: a line of a known type with three positional tokens and a closed
\* bracket list naming an unknown option has been refused.
C11_Witness ==
    /\ ppc = "parsed"
    /\ ~pres.ok
    /\ TypeTokenOf(line) \in SourceTypes
    /\ ~BracketUnclosed(line)
    /\ Len(PositionalTokens(line)) >= 3
    /\ \E n \in WrittenOptionNames(line) : KnownFromStr(n) = ""

\* A value as the specification stores it: one token as Text, several as a List.
TextOrList(tokens) == IF Len(tokens) = 1 THEN StringV(tokens[1]) ELSE ListV(tokens)

\* C13 (as claimed): every value the parser stores is the Text of its single
\* token, or the List of its comma-separated (or positional) tokens in order,
\* also for the tokens yes, no, true and false; so that a Text serializes to
\* its token.
C13_TokensStoredAsText ==
    (ppc = "parsed" /\ pres.ok)
       => LET g == GrammarLine(line) IN
          /\ pres.val[Known("Uris")] = TextOrList(<<g.params[1]>>)
          /\ ValueToDeb822(pres.val[Known("Uris")]) = g.params[1]
          /\ pres.val[Known("Suites")] = TextOrList(<<g.params[2]>>)
          /\ pres.val[Known("Components")]
                = TextOrList(SubSeq(g.params, 3, Len(g.params)))
          /\ \A i \in 1..Len(g.options) :
                Known(KnownFromStr(g.options[i].name))
                      \notin PositionalNames \cup {Known("Enabled")}
                   => pres.val[Known(KnownFromStr(g.options[i].name))]
                         = TextOrList(g.options[i].values)

-----------------------------------------------------------------------------
(* Properties of the serializer, checked under SpecEncode. *)

\* The line written for line l of a Multiline value: a space, then the line, or
\* a dot when the line is blank.
ContinuationLine(l) == <<" ">> \o (IF Trim(l) = <<>> THEN <<".">> ELSE l)

\* C14: the encoding of Multiline(L) is a newline followed, for each line of L
\* in order, by a space, the line or a dot for a blank line, and a newline: read
\* as lines, the text is an empty first line followed by the continuation lines
\* of L.
C14_MultilineEncoding ==
    (epc = "value" /\ evalue.kind = "Multiline")
       => /\ etext # <<>>
          /\ etext[1] = "\n"
          /\ etext[Len(etext)] = "\n"
          /\ Lines(etext) = << <<>> >> \o [i \in 1..Len(evalue.l) |->
                                              ContinuationLine(evalue.l[i])]

\* C14 witness: a Multiline with a key line and a blank line has been encoded.
C14_Witness ==
    /\ epc = "value"
    /\ evalue.kind = "Multiline"
    /\ \E i, j \in 1..Len(evalue.l) : Trim(evalue.l[i]) = <<>> /\ Trim(evalue.l[j]) # <<>>

\* The text the specification gives for one option: `Name: value` on one line,
\* or for a Multiline `Name:` alone on its line, then the continuation lines.
RECURSIVE ContinuationLines(_)
ContinuationLines(l) ==
    IF l = <<>> THEN <<>>
    ELSE ContinuationLine(Head(l)) \o <<"\n">> \o ContinuationLines(Tail(l))

FieldText(name, value) ==
    IF value.kind = "Multiline"
    THEN NameToDeb822(name) \o <<":", "\n">> \o ContinuationLines(value.l)
    ELSE NameToDeb822(name) \o <<":", " ">>
            \o (CASE value.kind = "String" -> value.s
                  [] value.kind = "List" -> Join(value.l, <<" ">>)
                  [] value.kind = "Bool" -> IF value.b THEN <<"yes">> ELSE <<"no">>)
            \o <<"\n">>

RECURSIVE FieldTexts(_)
FieldTexts(opts) ==
    IF opts = <<>> THEN <<>>
    ELSE FieldText(opts[1][1], opts[1][2]) \o FieldTexts(Tail(opts))

\* C15 (as claimed): the text written for an entry is, for each option in
\* canonical order, the line `Name: value`, or for a Multiline option the line
\* `Name:` with nothing after the colon followed at once by its continuation
\* lines.
C15_OneLinePerOption ==
    epc = "entry"
       => \A iter \in IterOrders(DOMAIN emap) : etext = FieldTexts(Options(emap, iter))

-----------------------------------------------------------------------------
(* Properties of the file parser, checked under SpecLineFile. *)

\* The class of a line, read off the line: blank, a comment line whose
\* remainder is a directive ("disabled"), another comment line ("comment"), or
\* any other line ("directive").
IsCommentLine(l) == Trim(l) # <<>> /\ Head(Trim(l)) = CommentChar

Remainder(l) == Trim(Tail(Trim(l)))

ClassOf(l) ==
    IF Trim(l) = <<>> THEN "blank"
    ELSE IF ~IsCommentLine(l) THEN "directive"
    ELSE IF ParseLineEntry(Remainder(l)).ok THEN "disabled"
    ELSE "comment"

Contributes(l, options) ==
    \/ ClassOf(l) = "directive"
    \/ ClassOf(l) = "disabled" /\ ~options.skip_disabled
    \/ ClassOf(l) = "comment" /\ ~options.skip_comments

ContributingIndexes(ls, options) == {i \in 1..Len(ls) : Contributes(ls[i], options)}

\* The index of the n-th contributing line.
NthContributing(ls, options, n) ==
    CHOOSE i \in ContributingIndexes(ls, options) :
        Cardinality({j \in ContributingIndexes(ls, options) : j <= i}) = n

\* The item the specification gives for a contributing line.
ItemIsOf(item, l) ==
    CASE ClassOf(l) = "disabled" ->
            /\ item.kind = "Entry"
            /\ DOMAIN item.options = DOMAIN ParseLineEntry(Remainder(l)).val
            /\ item.options[Known("Enabled")] = BoolV(FALSE)
            /\ \A n \in DOMAIN item.options \ {Known("Enabled")} :
                  item.options[n] = ParseLineEntry(Remainder(l)).val[n]
      [] ClassOf(l) = "comment" ->
            item = CommentItem(Remainder(l))
      [] ClassOf(l) = "directive" ->
            /\ item.kind = "Entry"
            /\ item.options = ParseLineEntry(l).val
            /\ item.options[Known("Enabled")] = BoolV(TRUE)
      [] OTHER -> FALSE

\* C16: parse_line_file gives, for every line that is not blank, a disabled
\* Entry when the line is a comment whose remainder parses (unless
\* skip_disabled), a Comment of the trimmed remainder when it is a comment whose
\* remainder is malformed (unless skip_comments), and an enabled Entry for any
\* other line; nothing else is emitted or removed, and a line of the last class
\* that does not parse fails the whole file.
C16_LinesAreClassified ==
    lpc = "parsed"
       => LET ls == Lines(lfile) IN
          IF \E i \in 1..Len(ls) : ClassOf(ls[i]) = "directive" /\ ~ParseLineEntry(ls[i]).ok
          THEN ~lres.ok /\ lres.err = "MalformedOneLineEntry"
          ELSE /\ lres.ok
               /\ Len(lres.val) = Cardinality(ContributingIndexes(ls, lopts))
               /\ \A n \in 1..Len(lres.val) :
                     ItemIsOf(lres.val[n], ls[NthContributing(ls, lopts, n)])

\* C16 witness: a comment, a commented-out entry and an entry, in that order,
\* parsed with the default options into three items.
C16_Witness ==
    /\ lpc = "parsed"
    /\ lopts = NoOptions
    /\ lres.ok
    /\ Len(lres.val) = 3
    /\ lres.val[1].kind = "Comment"
    /\ lres.val[2].kind = "Entry" /\ lres.val[2].options[Known("Enabled")] = BoolV(FALSE)
    /\ lres.val[3].kind = "Entry" /\ lres.val[3].options[Known("Enabled")] = BoolV(TRUE)

\* A directive that is well-formed but for an unknown option name in its
\* bracket list.
BadOptionNameOnly(e) ==
    /\ TypeTokenOf(e) \in SourceTypes
    /\ ~BracketUnclosed(e)
    /\ Len(PositionalTokens(e)) >= 3
    /\ \E n \in WrittenOptionNames(e) : KnownFromStr(n) = ""

BadOptionComments(ls) ==
    {i \in 1..Len(ls) : IsCommentLine(ls[i]) /\ BadOptionNameOnly(Remainder(ls[i]))}

NoBadDirective(ls) ==
    \A i \in 1..Len(ls) : ClassOf(ls[i]) = "directive" => ParseLineEntry(ls[i]).ok

\* C12 (as the code has it): an unrecognised option name is reported with the
\* kind of a malformed line, MalformedOneLineEntry, so a commented-out directive
\* with an unknown option name does not fail the file: it is emitted as an
\* ordinary Comment (unless skip_comments).
C12_BadOptionCommentIsComment ==
    (lpc = "parsed" /\ NoBadDirective(Lines(lfile)))
       => /\ lres.ok
          /\ \A i \in BadOptionComments(Lines(lfile)) :
                /\ ParseLineEntry(Remainder(Lines(lfile)[i])).err = "MalformedOneLineEntry"
                /\ ~lopts.skip_comments
                      => \E n \in 1..Len(lres.val) :
                            lres.val[n] = CommentItem(Remainder(Lines(lfile)[i]))

\* C12 witness: a file with a commented-out directive naming an unknown option
\* has been parsed, comments kept.
C12_Witness ==
    /\ lpc = "parsed"
    /\ lres.ok
    /\ ~lopts.skip_comments
    /\ BadOptionComments(Lines(lfile)) # {}

\* C12 as stated: the kind reported for an unrecognised option name differs
\* from the kind of a malformed line, and no commented-out directive with an
\* unknown option name is classified as a comment.
C12_BadOptionNameHasOwnKind ==
    lpc = "parsed"
       => \A i \in BadOptionComments(Lines(lfile)) :
             /\ ParseLineEntry(Remainder(Lines(lfile)[i])).err # "MalformedOneLineEntry"
             /\ lres.ok => \A n \in 1..Len(lres.val) :
                              lres.val[n] # CommentItem(Remainder(Lines(lfile)[i]))

\* ---------------------------------------------------------------------------
\* Properties of the conversion.

\* The text convert parsed: stdin, or the input file as it was at the start.
ConvertSource == IF cargs.in_stdio THEN cstdin ELSE cfs0[InPath].data

ConvertParseOptions ==
    [skip_comments |-> cargs.skip_comments, skip_disabled |-> cargs.skip_disabled]

\* The text convert wrote: the temporary file, or the destination file.
ConvertOutput == IF cargs.out_stdio THEN ctemp ELSE cfs[OutPath].data

\* The loop of convert has run to its end.
OutputComplete == cpc \in {"written", "copied", "done"}

\* The lines of a deb822 text that open an item: comment lines and the Types
\* field, which every converted stanza has and which sorts first in it.
OutputMarks(text) ==
    SelectSeq(Lines(text), LAMBDA l : l # <<>> /\ (l[1] = "#" \/ l[1] = "Types"))

\* The line an item opens with in the output.
ItemMark(item) ==
    IF item.kind = "Comment" THEN <<"#", " ">> \o item.text
    ELSE <<"Types", ":", " ">> \o ValueToDeb822(item.options[Known("Types")])

\* C17: the items convert holds mirror the input's line order (blank and
\* skipped lines give nothing, every other line gives one item, the n-th item
\* comes from the n-th contributing line), and once the loop of convert has
\* run, the output holds the items' opening lines in that same order.
C17_ItemsAndOutputInLineOrder ==
    /\ cpc \in {"constructed", "reported", "backed", "opened", "written", "copied", "done"}
          => LET ls == Lines(ConvertSource) IN
             /\ Len(centries) = Cardinality(ContributingIndexes(ls, ConvertParseOptions))
             /\ \A n \in 1..Len(centries) :
                   ItemIsOf(centries[n], ls[NthContributing(ls, ConvertParseOptions, n)])
    /\ OutputComplete
          => /\ OutputMarks(ConvertOutput) = [n \in 1..Len(centries) |-> ItemMark(centries[n])]
             /\ (cargs.out_stdio /\ cpc \in {"copied", "done"}) => cstdout = ctemp

\* C17 witness: a file of a comment, a commented-out deb-src entry and a deb
\* entry was converted into a destination file that opens its three items in
\* that order.
C17_Witness ==
    /\ cpc = "done"
    /\ ~cargs.out_stdio
    /\ Len(centries) = 3
    /\ centries[1].kind = "Comment"
    /\ centries[2].kind = "Entry" /\ centries[3].kind = "Entry"
    /\ OutputMarks(cfs[OutPath].data)
          = << <<"#", " ", "note">>, <<"Types", ":", " ", "deb-src">>, <<"Types", ":", " ", "deb">> >>

\* The output holds every item, in order.
OutputHoldsItems ==
    OutputMarks(ConvertOutput) = [n \in 1..Len(centries) |-> ItemMark(centries[n])]

\* The backup asked for, if any, holds the original's bytes.
BackupMade ==
    BackupPlan(cargs).some
       => cfs[BackupPlan(cargs).backup] = FileOf(cfs0[InPath].data)

\* C18: the original file changes only by being removed, only when the input
\* was given by name, and only in the last step of a convert that succeeded:
\* the backup asked for holds the original's bytes and the output holds every
\* item.  With --in/--out (paths or `-`) the original is never touched, and
\* whenever convert returns an error the original is as it was.
C18_OriginalRemovedOnlyByNameAndLast ==
    /\ cfs[InPath] # cfs0[InPath]
          => /\ cargs.by_name
             /\ ~cfs[InPath].exists
             /\ cpc = "done" /\ cres.ok
             /\ BackupMade
             /\ OutputHoldsItems
    /\ ~cargs.by_name => cfs[InPath] = cfs0[InPath]
    /\ cpc \in {"failed", "rejected", "reported"} => cfs[InPath] = cfs0[InPath]

\* C18 witness: a conversion by name with --backup has ended; the original is
\* gone, its backup and the converted file are there.
C18_Witness ==
    /\ cpc = "done"
    /\ cargs.by_name /\ cargs.backup
    /\ cfs0[InPath].exists /\ ~cfs[InPath].exists
    /\ cfs[DefaultBackupPath] = FileOf(cfs0[InPath].data)
    /\ cfs[OutPath].exists
    /\ Len(centries) = 3

\* convert was called: the command was built and not a dry run.
ConvertRan == cpc \in {"backed", "opened", "written", "copied", "done", "failed"}

\* C19: when a backup is asked for and its path (the default `.bak` path or
\* the path given) exists, convert fails with ConvertBackupAlreadyExists
\* carrying that path and leaves every file as it was: the existing backup
\* unmodified, no destination created, the original in place.
C19_ExistingBackupRefused ==
    (ConvertRan /\ BackupPlan(cargs).some /\ cfs0[BackupPlan(cargs).backup].exists)
       => /\ cpc = "failed"
          /\ cres = Err("ConvertBackupAlreadyExists", BackupPlan(cargs).backup)
          /\ cfs[BackupPlan(cargs).backup] = cfs0[BackupPlan(cargs).backup]
          /\ cfs[OutPath] = cfs0[OutPath]
          /\ cfs[InPath] = cfs0[InPath] /\ cfs[InPath].exists

\* C19 witness: convert by name with --backup found `myrepo.list.bak` there and
\* failed, the destination path being free.
C19_Witness ==
    /\ cpc = "failed"
    /\ cargs.backup
    /\ cfs0[DefaultBackupPath] = FileOf(StaleData)
    /\ ~cfs0[OutPath].exists
    /\ cres = Err("ConvertBackupAlreadyExists", DefaultBackupPath)

\* The destination is a file that was there before the command ran.
DestinationExisted == ~cargs.out_stdio /\ cfs0[OutPath].exists

\* C20 (as the code has it): with the destination file already there, by name
\* or by path, convert never succeeds, leaves the destination unmodified and
\* the original in place, and -- the backup step, which runs first, having
\* succeeded -- fails with ConvertOutFileAlreadyExists carrying the
\* destination path.  When the backup step fails first, its error is the one
\* returned.
C20_ExistingDestinationRefused ==
    /\ [](DestinationExisted
            => /\ cpc \notin {"opened", "written", "copied", "done"}
               /\ cfs[OutPath] = cfs0[OutPath]
               /\ cfs[InPath] = cfs0[InPath])
    /\ [][(DestinationExisted /\ cpc = "backed")
            => /\ cpc' = "failed"
               /\ cres' = Err("ConvertOutFileAlreadyExists", OutPath)
               /\ cfs' = cfs]_vars

\* C20 witness: convert by name with --backup made the backup, found the
\* destination there and failed.
C20_Witness ==
    /\ cpc = "failed"
    /\ cargs.by_name /\ cargs.backup
    /\ cfs0[OutPath] = FileOf(StaleData)
    /\ cfs[OutPath] = FileOf(StaleData)
    /\ cfs[DefaultBackupPath] = FileOf(cfs0[InPath].data)
    /\ cfs[InPath].exists
    /\ cres = Err("ConvertOutFileAlreadyExists", OutPath)

\* C20 as stated, I/O failures of the operating system set aside: whenever the
\* destination file exists, the error convert returns is
\* ConvertOutFileAlreadyExists.
C20_ExistingDestinationAlwaysThatError ==
    (DestinationExisted /\ ConvertRan /\ cpc \in {"failed", "done"}
        /\ cres.err \notin {"Io", "PermissionDenied"})
       => /\ cpc = "failed"
          /\ cres = Err("ConvertOutFileAlreadyExists", OutPath)
          /\ cfs[OutPath] = cfs0[OutPath]
          /\ cfs[InPath] = cfs0[InPath]

\* C21: when the input is a file (named or given by path) that does not exist,
\* building the converter fails with ConvertInFileNotFound carrying the input
\* path, convert is never called, and no file is created: the destination and
\* backup paths are as they were.
C21_MissingInputRefused ==
    (~cargs.in_stdio /\ ~cfs0[InPath].exists /\ cpc # "start")
       => /\ cpc = "rejected"
          /\ cres = Err("ConvertInFileNotFound", InPath)
          /\ cfs = cfs0

\* C21 witness: a by-name conversion with --backup of a file that is not there
\* was refused, the destination and backup paths being free.
C21_Witness ==
    /\ cpc = "rejected"
    /\ cargs.by_name /\ cargs.backup
    /\ ~cfs0[InPath].exists
    /\ ~cfs[OutPath].exists /\ ~cfs[DefaultBackupPath].exists
    /\ cres = Err("ConvertInFileNotFound", InPath)

\* The paths other than the input and the destination: where a backup can be.
BackupPaths == FsPaths \ {InPath, OutPath}

\* C22: after a successful convert with --backup the file `<original>.bak`
\* exists, after one with --backup-to the file at the path given exists, and
\* either holds exactly the bytes the original had before the conversion;
\* with no backup mode, or with stdin as the input, no backup file is created.
C22_BackupHoldsOriginalBytes ==
    cpc = "done"
       => /\ cargs.backup
                => cfs[InPath \o <<".bak">>] = FileOf(cfs0[InPath].data)
          /\ (~cargs.backup /\ cargs.backup_to # <<>>)
                => cfs[cargs.backup_to] = FileOf(cfs0[InPath].data)
          /\ ((~cargs.backup /\ cargs.backup_to = <<>>) \/ cargs.in_stdio)
                => \A p \in BackupPaths : cfs[p] = cfs0[p]

\* C22 witness: a by-name conversion with --backup-to of a file of three lines
\* has succeeded and the file at the path given holds those lines.
C22_Witness ==
    /\ cpc = "done"
    /\ cargs.backup_to = OtherPath
    /\ Len(Lines(cfs0[InPath].data)) = 3
    /\ ~cfs0[OtherPath].exists
    /\ cfs[OtherPath] = FileOf(cfs0[InPath].data)

\* ---------------------------------------------------------------------------
\* Properties of parse_custom_option.

\* The positions of `=` in the trimmed argument.
EqualsAt(option) == {i \in 1..Len(Trim(option)) : Trim(option)[i] = "="}

FirstEquals(option) == CHOOSE i \in EqualsAt(option) : \A j \in EqualsAt(option) : i <= j

KeyOf(option) == SubSeq(Trim(option), 1, FirstEquals(option) - 1)

ValueOf(option) == SubSeq(Trim(option), FirstEquals(option) + 1, Len(Trim(option)))

\* C23: parse_custom_option fails with MalformedOption carrying the input when
\* the input has no `=`, whatever force_literal is; otherwise the key is the
\* text before the first `=`: without force_literal it is resolved through the
\* case-insensitive alias table and an unknown key fails with
\* InvalidOptionName carrying the key, with force_literal the name is
\* Custom(key) as spelled; a value with a `,` is the List of its
\* comma-separated parts in order, any other value a single String or Bool.
\* A Custom name is produced only with force_literal.
C23_CustomOptionParsing ==
    qpc = "parsed"
       => IF EqualsAt(qoption) = {}
          THEN qres = Err("MalformedOption", qoption)
          ELSE IF ~qforce /\ KnownFromStr(KeyOf(qoption)) = ""
          THEN qres = Err("InvalidOptionName", KeyOf(qoption))
          ELSE /\ qres.ok
               /\ qres.val[1] = IF qforce THEN Custom(KeyOf(qoption))
                                ELSE Known(KnownFromStr(KeyOf(qoption)))
               /\ ~qres.val[1].known => qforce
               /\ IF \E i \in 1..Len(ValueOf(qoption)) : ValueOf(qoption)[i] = ","
                  THEN /\ qres.val[2].kind = "List"
                       /\ Len(qres.val[2].l) >= 2
                       /\ Join(qres.val[2].l, <<",">>) = ValueOf(qoption)
                       /\ \A n \in 1..Len(qres.val[2].l) :
                             \A i \in 1..Len(qres.val[2].l[n]) : qres.val[2].l[n][i] # ","
                  ELSE /\ qres.val[2].kind \in {"String", "Bool"}
                       /\ qres.val[2].kind = "String" => qres.val[2].s = ValueOf(qoption)
                       /\ qres.val[2].kind = "Bool"
                             => ToLowercase(ValueOf(qoption))
                                   \in {<<"yes">>, <<"true">>, <<"no">>, <<"false">>}

\* C23 witness: ` Lang=x,y ` parsed with force_literal gives the custom name
\* `Lang`, not Languages, and the list of x and y.
C23_Witness ==
    /\ qpc = "parsed"
    /\ qforce
    /\ qoption = <<" ", "Lang", "=", "x", ",", "y", " ">>
    /\ qres = Ok(<<Custom(<<"Lang">>), ListV(<< <<"x">>, <<"y">> >>)>>)

\* ---------------------------------------------------------------------------
\* Properties of the commands.

\* The lines of a report that start with the given words.
ReportLines(report, words) ==
    {i \in 1..Len(report.lines) : report.lines[i][1] = words}

OptionLineIndexes(text) == {i \in 1..Len(Lines(text)) : Trim(Lines(text)[i]) # <<>>}

\* C25: the text written for one entry is a single stanza: no blank line lies
\* between its first and its last option line, for every option map, one with
\* an inlined Multiline Signed-By followed by later options included.
C25_EntryIsOneStanza ==
    epc = "entry"
       => \A i, j \in OptionLineIndexes(etext) :
             \A k \in i..j : k \in OptionLineIndexes(etext)


\* C26: a conversion that fails at any step (the input missing, an active line
\* that does not parse, the backup path or the destination existing, a write
\* error) leaves the file system as it was before the invocation: no backup,
\* no destination and no partial output remain, and the original is intact.
C26_FailedConversionLeavesNothing ==
    cpc \in {"rejected", "failed"} => cfs = cfs0


\* The text the specification gives for one item: the stanza's field lines, or
\* the comment line `# text`.
ItemText(item) ==
    IF item.kind = "Entry"
    THEN FieldTexts(Options(item.options,
                            CHOOSE it \in IterOrders(DOMAIN item.options) : TRUE))
    ELSE <<"#", " ">> \o item.text \o <<"\n">>

\* The file the specification gives for a sequence of items: one blank line
\* between two items of which one is a stanza, none between two comments and
\* none at the end.
RECURSIVE ItemsText(_)
ItemsText(items) ==
    IF items = <<>> THEN <<>>
    ELSE ItemText(items[1])
         \o (IF Len(items) > 1 /\ (items[1].kind = "Entry" \/ items[2].kind = "Entry")
             THEN <<"\n">> ELSE <<>>)
         \o ItemsText(Tail(items))

\* C27: in the output of convert two consecutive stanzas, and a stanza and an
\* adjacent comment, are separated by exactly one blank line, consecutive
\* comments are on consecutive lines as `# text`, and the output does not end
\* with a blank line.
C27_ItemsSeparatedByOneBlankLine ==
    OutputComplete
       => /\ ConvertOutput = ItemsText(centries)
          /\ LET ls == Lines(ConvertOutput) IN
             /\ ls # <<>> => Trim(ls[Len(ls)]) # <<>>
             /\ \A i \in 1..(Len(ls) - 1) : ~(Trim(ls[i]) = <<>> /\ Trim(ls[i + 1]) = <<>>)

\* C27 witness: two comments and a stanza were converted into a file whose
\* first two lines are the comments and whose third line is blank.
C27_Witness ==
    /\ cpc = "done"
    /\ ~cargs.out_stdio
    /\ Len(centries) = 3
    /\ centries[1].kind = "Comment" /\ centries[2].kind = "Comment"
    /\ centries[3].kind = "Entry"
    /\ LET ls == Lines(cfs[OutPath].data) IN
       /\ Len(ls) > 4
       /\ ls[1] = <<"#", " ", "note">> /\ ls[2] = <<"#", " ", "note">>
       /\ ls[3] = <<>> /\ ls[4] # <<>>


\* The field names of a stanza: what stands before the colon on each line that
\* is not blank and not a continuation line.
FieldLineIndexes(text) ==
    {i \in 1..Len(Lines(text)) : Lines(text)[i] # <<>> /\ Lines(text)[i][1] # " "}

FieldNameAt(text, i) == SplitOnce(Lines(text)[i], ":")[2]

\* C28: in the stanza written for a map the program can build no field name
\* appears on more than one line, also when a force-literal custom option is
\* spelled like the display name of a known option that is present.
C28_FieldNamesAreUnique ==
    epc = "entry"
       => \A i, j \in FieldLineIndexes(etext) :
             FieldNameAt(etext, i) = FieldNameAt(etext, j) => i = j


-----------------------------------------------------------------------------
(* Properties of name resolution, checked under SpecNames. *)

\* C29: name resolution round-trips: the display name of every known option,
\* in any letter case, is resolved by from_str to that option; none is
\* rejected or resolved to another option.
C29_DisplayNameResolvesToItsOption ==
    npc = "resolved" => nres = Ok(nname)


-----------------------------------------------------------------------------
(* Properties of piping a key through the PGP tool, checked under          *)
(* SpecPipeLive.                                                            *)

\* The calling thread has not come to its end, and neither it nor a reader
\* thread nor the child can take a step, unless the child gives up.
PipeStuck == gpc \notin {"idle", "done", "failed"} /\ ~ENABLED PipeProgress

\* C30: the threads draining the child's stdout and stderr are started before
\* the key is written to its stdin, stdin is closed before the parent waits for
\* the child, and the threads are joined only after the child was waited for;
\* so for every key length and pipe capacity parent and child never block each
\* other on full pipes, and the operation comes to its end once the child has
\* read its input and exited.
C30_PipesNeverDeadlock ==
    /\ [][gleft' < gleft
            => gthreads.stdout # "unstarted" /\ gthreads.stderr # "unstarted"]_vars
    /\ [](gpc \in {"wait", "join_stderr", "join_stdout"} => ~gpipes.stdin_open)
    /\ [](gpc \in {"join_stderr", "join_stdout"} => gchild.state = "exited")
    /\ []((gpc = "done" /\ gchild.state # "none")
             => /\ gchild.state = "exited"
                /\ gthreads.stdout = "finished" /\ gthreads.stderr = "finished"
                /\ ~gpipes.stdin_open)
    /\ [](~PipeStuck)
    /\ (gpc = "spawn" ~> gpc \in {"done", "failed"})

\* C30 witness: a key longer than the pipes' capacity was piped through a
\* child that wrote more than the capacity to stdout and to stderr before it
\* read its stdin; everything was collected and the operation is done.
C30_Witness ==
    /\ gpc = "done"
    /\ gkey.len > gpipes.cap
    /\ gchild.order = "write_first"
    /\ gchild.status = "success"
    /\ gthreads.outn > gpipes.cap /\ gthreads.errn > gpipes.cap
    /\ gres = Ok(gthreads.outn)

=============================================================================
